---- MODULE Spec2Model ----
(***************************************************************************)
(* Sesame Recorder: the recording / chunking / transcription pipeline.     *)
(*                                                                         *)
(* RecorderUI (the page) owns the MediaRecorder, the 30 s seal timer, the  *)
(* sealed audioChunks and the finalTranscripts array.  FinalTranscript     *)
(* (the dispatcher) receives audioChunks as a prop and runs an effect that *)
(* starts an asynchronous loop over the unprocessed chunk indices.         *)
(*                                                                         *)
(* React is modelled as follows: a handler, the render it causes and the   *)
(* effects of that render form one step.  A function created in a render   *)
(* sees the state of that render for as long as it lives, so every value   *)
(* an asynchronous continuation reads from its closure is stored with the  *)
(* continuation (closureChunkNumber, the fields of a loop record).         *)
(* Functional state updates (setX(prev => ...)) act on the current state.  *)
(***************************************************************************)
EXTENDS Integers, Sequences, FiniteSets, TLC

\* ---------------------------------------------------------------- bounds
MaxTimerSeals == 1      \* timer-triggered seals per recording
MaxSessions == 1        \* recordings started since page load
MaxKeys == 2            \* credentials in the pool
MaxResets == 1          \* presses of a Reset Session control
MaxData == 1            \* data blobs buffered for the chunk being recorded
MaxBatch == 5           \* chunks of the finished recording the dispatcher is started on
MaxResults == 2         \* results one recognition object delivers
MaxTextLength == 36     \* characters of a recognized text
MaxPending == 2         \* restart timeouts of one kind armed for one recognition object
MaxDuration == 1         \* seconds counted by the duration timer
MaxTextUnits == 1        \* characters of a key, a text, its timestamps, its white space
MaxExtraStarts == 1      \* further startRecording calls awaiting at the same time
MaxRequests == 4         \* requests for one chunk the request log counts
MaxCounted == 2          \* chunks of the recording whose requests are counted
sampleRate == 1          \* samples per second of the processor (16000 in the source)
MaxSamples == 7          \* samples added to the processor between two clear() calls
MaxChunkLength == 4      \* samples of one addAudioData call
MaxBuffered == 3         \* arrays buffered in the processor
MaxBlobs == 4            \* 'dataavailable' events of one recording of the single-blob page
MaxBlobRecordings == 3   \* recordings of the single-blob page
MaxRoom == 2             \* size units of room for the "current-session" record, when limited

\* localStorage without a limit that matters
Unlimited == [limited |-> FALSE, room |-> 0]
MaxLoops == MaxResets + 1   \* processChunks() calls that can be running at once

\* ------------------------------------------------------ program constants
CHUNK_DURATION == 30
chunkDuration == 3       \* constructor(chunkDuration = 3), in seconds
maxRetries == 2
MaxHistory == 50         \* saveSessionToHistory: history.slice(0, 50)
MaxApiKeys == 5          \* addApiKey: apiKeys.length < 5

Null == <<>>           \* error === null
Empty == <<>>          \* a hole of a JavaScript sparse array

Outcomes == {"ok", "throw", "fail"}
\* what the service does on the 1st, 2nd, 3rd call for one chunk
Scripts == [1..(maxRetries + 1) -> Outcomes]

CaptureModes == {"microphone", "desktop", "both"}
Kinds == {"mic", "desktop"}
\* the SpeechRecognition objects setupSpeechRecognition can create: one per
\* recording and kind
Objects == (1..(MaxSessions + MaxExtraStarts)) \X Kinds

VARIABLES
  \* RecorderUI
  isRecording,          \* isRecordingRef.current / isRecording
  starting,             \* a startRecording call is awaiting device acquisition
  currentChunkNumber,   \* state currentChunkNumber
  closureChunkNumber,   \* currentChunkNumber as seen by the listeners of this recording
  recorderState,        \* "none" | "inactive" | "recording"
  chunkData,            \* currentChunkDataRef.current: the blobs of the chunk being recorded
  stopEvent,            \* a MediaRecorder 'stop' event is queued
  restartTimer,         \* the 100 ms restart timeout is armed
  chunkInterval,        \* the 30 s interval is armed
  audioChunks,          \* state audioChunks
  finalTranscripts,     \* state finalTranscripts (sparse array)
  pageKeys,             \* state geminiApiKeys of the page
  captureMode,          \* state captureMode
  closureCaptureMode,   \* captureMode as seen by the running startRecording call
  recognitionRef,       \* recognitionRef.current: Null or an object
  recog,                \* per SpeechRecognition object: engine running, armed restart timeouts
  \* FinalTranscript
  geminiApiKeys,        \* state geminiApiKeys of the dispatcher
  processedChunks,      \* state processedChunks
  completedTranscripts, \* state completedTranscripts (sparse array)
  error,                \* state error: Null or <<i>>, "Chunk i+1 failed"
  processingRef,        \* processingRef.current
  loops,                \* the running processChunks() calls
  \* history
  session,              \* recordings started so far
  sealCount,            \* chunks sealed in this recording
  resets,               \* Reset Session presses so far
  attempted,            \* ids of the current chunks whose processing was started
  failed,               \* indices whose last processing in this batch exhausted the retries
  lastRequest,          \* the last transcription request issued
  outOfOrder,           \* a chunk completed after a chunk of a higher index
  serviceScript,        \* scripted service: its answer to the 1st, 2nd, 3rd call for a chunk
  delivered,            \* the blobs the encoder delivered for the chunks kept and the buffer
  owed,                 \* objects that had an 'end' / 'no-speech' while recording and no start() since
  transcript,           \* state transcript: the live transcript entries
  finals,               \* the results the engines finalized since the transcript was last cleared
  micStreamRef,         \* micStreamRef.current: Null or the stream handle stored
  desktopStreamRef,     \* desktopStreamRef.current: Null or the stream handle stored
  streamState,          \* per stream handle: "none", "live", "released", "releasedTwice"
  mounted,              \* the RecorderUI component is mounted
  currentSession,       \* localStorage "current-session": Null or the record saved
  history,              \* localStorage "sesame-session-history": the entries, newest first
  duration,             \* state duration: the seconds recorded (capped)
  quota,                \* localStorage: whether room is limited, and the room there is
                        \* for the "current-session" record
  \* transcribeAudioWithGemini (server action)
  call,                 \* the arguments of a call and what the service will answer
  response,             \* the GeminiTranscriptResponse the call resolved with
  \* GeminiSettings
  apiKeys,              \* state apiKeys: the entries { id, key } of the list
  validKeys,            \* the pool last handed to onApiKeysChange and written to
                        \* "gemini-api-keys"
  \* startRecording calls running at the same time
  extraStarts,          \* further startRecording calls awaiting device acquisition
  orphanEncoders,       \* MediaRecorders still recording that mediaRecorderRef no longer holds
  orphanIntervals,      \* armed seal intervals whose id chunkIntervalRef no longer holds
  \* history of the transcription requests
  requestLog,           \* where kept: the number of requests issued for each chunk id
  \* the mixing AudioContext of startRecording
  audioContext,         \* "none", "running" or "closed"
  \* an AudioChunkProcessor
  procChunks,           \* this.chunks: the buffered sample arrays
  procResult,           \* what the last getNextChunk call returned
  procOp,               \* the last method called
  procAdded,            \* samples added since the buffer was last empty by construction or clear()
  procTaken,            \* the samples the getNextChunk calls returned since then, in order
  \* the single-blob recorder page (src/app/page.tsx)
  blobIsRecording,      \* state isRecording of that page
  blobRecorderState,    \* its MediaRecorder: "none", "recording" or "inactive"
  audioChunksRef,       \* audioChunksRef.current: the blobs pushed by the 'dataavailable' listener
  flushPending,         \* stop() was called and the last 'dataavailable' is not yet delivered
  encoded,              \* the blobs the encoder delivered for the current recording
  finalAudioBlob,       \* state finalAudioBlob: the parts of the blob, Null for null
  blobRecording         \* number of the current recording of that page

pageVars == <<isRecording, starting, currentChunkNumber, closureChunkNumber,
              recorderState, chunkData, stopEvent, restartTimer, chunkInterval,
              audioChunks, finalTranscripts, pageKeys>>
dispVars == <<geminiApiKeys, processedChunks, completedTranscripts, error,
              processingRef, loops>>
histVars == <<session, sealCount, resets, attempted, failed, lastRequest, outOfOrder,
              serviceScript, delivered>>
recogVars == <<captureMode, closureCaptureMode, recognitionRef, recog, owed, transcript,
               finals>>
streamVars == <<micStreamRef, desktopStreamRef, streamState, mounted>>
storeVars == <<currentSession, history, duration, quota>>
callVars == <<call, response>>
settingsVars == <<apiKeys, validKeys>>
toggleVars == <<extraStarts, orphanEncoders, orphanIntervals>>
countVars == <<requestLog>>
mixerVars == <<audioContext>>
processorVars == <<procChunks, procResult, procOp, procAdded, procTaken>>
blobVars == <<blobIsRecording, blobRecorderState, audioChunksRef, flushPending, encoded, finalAudioBlob, blobRecording>>
vars == <<pageVars, dispVars, histVars, recogVars, streamVars, storeVars, callVars, settingsVars, toggleVars, countVars, mixerVars, processorVars, blobVars>>

\* --------------------------------------------------------------- helpers
Max(a, b) == IF a > b THEN a ELSE b

\* arr.push(v) in place of arr[i] = v
ArrayPush(arr, i, v) == Append(arr, v)

\* arr[i] = v on a JavaScript array (i is 0-based; holes are created)
ArraySet(arr, i, v) ==
  [k \in 1..Max(Len(arr), i + 1) |->
     IF k = i + 1 THEN v ELSE IF k <= Len(arr) THEN arr[k] ELSE Empty]

\* arr.filter((t) => t)
RECURSIVE Filled(_)
Filled(arr) ==
  IF arr = <<>> THEN <<>>
  ELSE IF Head(arr) = Empty THEN Filled(Tail(arr))
       ELSE <<Head(arr)>> \o Filled(Tail(arr))

\* the pool with k credentials
PoolOf(k) == [j \in 1..k |-> j]

\* the transcript the service returns for a chunk
TranscriptOf(chunk) == chunk.id

\* audioChunks.map((_, index) => index).filter((index) => !processedChunks.has(index))
RECURSIVE IndicesFrom(_, _, _)
IndicesFrom(i, n, processed) ==
  IF i >= n THEN <<>>
  ELSE IF i \in processed THEN IndicesFrom(i + 1, n, processed)
       ELSE <<i>> \o IndicesFrom(i + 1, n, processed)

unprocessedChunks(chunks, processed) == IndicesFrom(0, Len(chunks), processed)

\* the rotation taken over the 1-based chunk number instead of the index
getApiKeyForChunkByNumber(chunkIndex, keys) == keys[((chunkIndex + 1) % Len(keys)) + 1]

\* const keyIndex = chunkIndex % geminiApiKeys.length
getApiKeyForChunk(chunkIndex, keys) == keys[(chunkIndex % Len(keys)) + 1]

NoLoop ==
  [audioChunks |-> <<>>, processedChunks |-> {}, keys |-> <<>>, queue |-> <<>>,
   phase |-> "idle", chunkIndex |-> -1, retryCount |-> 0, apiKey |-> 0,
   result |-> "none"]

\* ------------------------------------------------- the auto-process effect
\* The effect of the render in which the dependencies changed.  It starts a
\* loop that keeps the audioChunks, processedChunks and geminiApiKeys of
\* that render.
\* the effect without its geminiApiKeys.length > 0 condition
EffectFiresWithoutKeys(chunks, processed, keys, pref) ==
  /\ Len(chunks) > 0
  /\ ~pref
  /\ unprocessedChunks(chunks, processed) # <<>>

EffectFires(chunks, processed, keys, pref) ==
  /\ Len(chunks) > 0
  /\ ~pref
  /\ Len(keys) > 0
  /\ unprocessedChunks(chunks, processed) # <<>>

NewLoop(chunks, processed, keys) ==
  [audioChunks |-> chunks, processedChunks |-> processed, keys |-> keys,
   queue |-> unprocessedChunks(chunks, processed), phase |-> "next",
   chunkIndex |-> -1, retryCount |-> 0, apiKey |-> 0, result |-> "none"]

FreeSlot(lps) == CHOOSE n \in 1..MaxLoops :
                   /\ lps[n].phase = "idle"
                   /\ \A m \in 1..(n - 1) : lps[m].phase # "idle"

AutoProcess(chunks, processed, keys, pref, err, lps) ==
  IF EffectFires(chunks, processed, keys, pref)
  THEN [processingRef |-> TRUE, error |-> Null, fired |-> TRUE,
        loops |-> [lps EXCEPT ![FreeSlot(lps)] = NewLoop(chunks, processed, keys)]]
  ELSE [processingRef |-> pref, error |-> err, fired |-> FALSE, loops |-> lps]

NoRequest == [chunkIndex |-> -1, attempt |-> 0, apiKey |-> 0, keys |-> <<>>]

\* the request log of a specification that keeps none, and an empty one
NotCounting == [on |-> FALSE, count |-> <<>>]
Counting == [on |-> TRUE, count |-> <<>>]

\* one more transcribeMP3WithGemini call for the chunk with this id (the log
\* stops counting at MaxRequests)
CountRequest(log, id) ==
  IF ~log.on THEN log
  ELSE IF id \in DOMAIN log.count
       THEN [log EXCEPT !.count[id] = IF @ < MaxRequests THEN @ + 1 ELSE @]
       ELSE [log EXCEPT !.count = @ @@ (id :> 1)]

\* the request loop l issues for its current chunk
Request(l) ==
  [chunkIndex |-> l.chunkIndex, attempt |-> l.retryCount + 1, apiKey |-> l.apiKey,
   keys |-> l.keys]

\* a SpeechRecognition object that was not created or is at rest
NoRecognition ==
  [created |-> FALSE, running |-> FALSE, endTimers |-> 0, noSpeechTimers |-> 0,
   results |-> <<>>, made |-> 0, lastFinalIndex |-> 0]

\* the ids of the chunks in a chunk array
Ids(chunks) == {chunks[k].id : k \in 1..Len(chunks)}

\* ------------------------------------------- transcribeAudioWithGemini
\* the status words the function looks for in the message of an error of the
\* service, and the one of the unsupported-media-type failure
Markers ==
  {"API_KEY_INVALID", "QUOTA_EXCEEDED", "RESOURCE_EXHAUSTED", "UNSUPPORTED_MEDIA_TYPE"}

\* an apiKey argument: the length of its trimmed content and the white space
\* around it
ApiKey(n, pad) == [length |-> n, pad |-> pad]

\* response.text(): the length of its trimmed content without timestamps, the
\* characters of its [m:ss] timestamps, and the white space around it
ServiceText(n, stamps, pad) == [length |-> n, stamps |-> stamps, pad |-> pad]

\* what model.generateContent does: it resolves with a text, or it rejects
\* with an error whose message (if it has one) includes some of the markers
ServiceAnswers ==
  {[kind |-> "text", text |-> ServiceText(n, st, pad), hasMessage |-> FALSE, message |-> {}] :
     n \in 0..MaxTextUnits, st \in 0..MaxTextUnits, pad \in 0..MaxTextUnits}
  \cup {[kind |-> "error", text |-> ServiceText(0, 0, 0), hasMessage |-> TRUE, message |-> m] :
     m \in SUBSET Markers}
  \cup {[kind |-> "error", text |-> ServiceText(0, 0, 0), hasMessage |-> FALSE, message |-> {}]}

\* the arguments of a call, whether new GoogleGenerativeAI / getGenerativeModel
\* throws, and the answer of the service
Calls ==
  [apiKey : {ApiKey(n, pad) : n \in 0..MaxTextUnits, pad \in 0..MaxTextUnits},
   initThrows : BOOLEAN,
   service : ServiceAnswers]

\* no call was made
NoCall == <<>>

\* { success: false, error }: the fixed text of the message and the error
\* message interpolated into it
Failure(text, detail) == [success |-> FALSE, error |-> text, detail |-> detail]

\* cleanTranscript: the timestamps removed, the result trimmed
cleanTranscript(t) == ServiceText(t.length, 0, 0)

\* the catch of the generateContent call
TranscriptionError(e) ==
  IF e.hasMessage /\ "API_KEY_INVALID" \in e.message
  THEN Failure("Invalid Gemini API key. Please check your API key in Settings.", {})
  ELSE IF e.hasMessage /\ "QUOTA_EXCEEDED" \in e.message
  THEN Failure("Gemini API quota exceeded. Please try again later.", {})
  ELSE IF e.hasMessage /\ "RESOURCE_EXHAUSTED" \in e.message
  THEN Failure("Gemini API resource exhausted. Audio file may be too large.", {})
  ELSE Failure("Transcription failed: ",
               IF e.hasMessage /\ e.message # {} THEN e.message ELSE {"Unknown error"})

\* transcribeAudioWithGemini(base64Audio, mimeType, audioSize, apiKey, ...)
transcribeAudioWithGemini(c) ==
  IF c.apiKey.length = 0
  THEN Failure("Gemini API key is required. Please add your API key in Settings.", {})
  ELSE IF c.initThrows
  THEN Failure("Failed to initialize Gemini API. Please check your API key.", {})
  ELSE IF c.service.kind = "text"
  THEN IF c.service.text.length + c.service.text.stamps > 0
       THEN [success |-> TRUE, transcript |-> cleanTranscript(c.service.text)]
       ELSE Failure("No transcript generated from the audio file", {})
  ELSE TranscriptionError(c.service)

\* a call of the server action resolves
TranscribeCall ==
  /\ call # NoCall
  /\ response = Null
  /\ response' = transcribeAudioWithGemini(call)
  /\ UNCHANGED <<pageVars, dispVars, histVars, recogVars, streamVars, storeVars, call>>
  /\ UNCHANGED settingsVars
  /\ UNCHANGED blobVars
  /\ UNCHANGED processorVars
  /\ UNCHANGED mixerVars
  /\ UNCHANGED countVars
  /\ UNCHANGED toggleVars

\* -------------------------------------------------------- GeminiSettings
\* key.length
KeyLength(k) == k.length + k.pad

\* key.trim()
TrimKey(k) == ApiKey(k.length, 0)

\* the values an input of the list can be given
KeyValues == {ApiKey(n, pad) : n \in 0..MaxTextUnits, pad \in 0..MaxTextUnits}

\* { id, key: "" }
NewEntry(id) == [id |-> id, key |-> ApiKey(0, 0)]

\* apiKeys.filter((entry) => entry.key.trim().length > 0).map((entry) => entry.key.trim())
RECURSIVE ValidKeys(_)
ValidKeys(entries) ==
  IF entries = <<>> THEN <<>>
  ELSE IF KeyLength(TrimKey(Head(entries).key)) > 0
       THEN <<TrimKey(Head(entries).key)>> \o ValidKeys(Tail(entries))
       ELSE ValidKeys(Tail(entries))

\* prev.filter((entry) => entry.id !== id)
RECURSIVE WithoutId(_, _)
WithoutId(entries, id) ==
  IF entries = <<>> THEN <<>>
  ELSE IF Head(entries).id # id
       THEN <<Head(entries)>> \o WithoutId(Tail(entries), id)
       ELSE WithoutId(Tail(entries), id)

\* prev.map((entry) => (entry.id === id ? { ...entry, key: value } : entry))
WithKey(entries, id, value) ==
  [i \in 1..Len(entries) |->
     IF entries[i].id = id THEN [entries[i] EXCEPT !.key = value] ELSE entries[i]]

\* the save effect of the render after a change of apiKeys
SaveKeysEffect ==
  validKeys' = ValidKeys(apiKeys')

\* the Add Key button
addApiKey ==
  /\ Len(apiKeys) < MaxApiKeys
  /\ apiKeys' = Append(apiKeys, NewEntry(Len(apiKeys) + 1))
  /\ SaveKeysEffect
  /\ UNCHANGED <<pageVars, dispVars, histVars, recogVars, streamVars, storeVars, callVars>>
  /\ UNCHANGED blobVars
  /\ UNCHANGED processorVars
  /\ UNCHANGED mixerVars
  /\ UNCHANGED countVars
  /\ UNCHANGED toggleVars

\* the trash button of row i
removeApiKey(i) ==
  /\ i \in 1..Len(apiKeys)
  /\ Len(apiKeys) > 1
  /\ apiKeys' = WithoutId(apiKeys, apiKeys[i].id)
  /\ SaveKeysEffect
  /\ UNCHANGED <<pageVars, dispVars, histVars, recogVars, streamVars, storeVars, callVars>>
  /\ UNCHANGED blobVars
  /\ UNCHANGED processorVars
  /\ UNCHANGED mixerVars
  /\ UNCHANGED countVars
  /\ UNCHANGED toggleVars

\* the clear button of row i, shown when the key of the row is not ""
clearApiKey(i) ==
  /\ i \in 1..Len(apiKeys)
  /\ KeyLength(apiKeys[i].key) > 0
  /\ apiKeys' = WithKey(apiKeys, apiKeys[i].id, ApiKey(0, 0))
  /\ SaveKeysEffect
  /\ UNCHANGED <<pageVars, dispVars, histVars, recogVars, streamVars, storeVars, callVars>>
  /\ UNCHANGED blobVars
  /\ UNCHANGED processorVars
  /\ UNCHANGED mixerVars
  /\ UNCHANGED countVars
  /\ UNCHANGED toggleVars

\* typing into the input of row i
handleApiKeyChange(i, value) ==
  /\ i \in 1..Len(apiKeys)
  /\ value # apiKeys[i].key
  /\ apiKeys' = WithKey(apiKeys, apiKeys[i].id, value)
  /\ SaveKeysEffect
  /\ UNCHANGED <<pageVars, dispVars, histVars, recogVars, streamVars, storeVars, callVars>>
  /\ UNCHANGED blobVars
  /\ UNCHANGED processorVars
  /\ UNCHANGED mixerVars
  /\ UNCHANGED countVars
  /\ UNCHANGED toggleVars

\* ------------------------------------------------------------------ Init
Init ==
  /\ isRecording = FALSE
  /\ starting = FALSE
  /\ currentChunkNumber = 1
  /\ closureChunkNumber = 1
  /\ recorderState = "none"
  /\ chunkData = <<>>
  /\ stopEvent = FALSE
  /\ restartTimer = FALSE
  /\ chunkInterval = FALSE
  /\ audioChunks = <<>>
  /\ finalTranscripts = <<>>
  /\ pageKeys = <<>>
  /\ geminiApiKeys = <<>>
  /\ processedChunks = {}
  /\ completedTranscripts = <<>>
  /\ error = Null
  /\ processingRef = FALSE
  /\ loops = [n \in 1..MaxLoops |-> NoLoop]
  /\ session = 0
  /\ sealCount = 0
  /\ resets = 0
  /\ attempted = {}
  /\ failed = {}
  /\ lastRequest = NoRequest
  /\ outOfOrder = FALSE
  /\ serviceScript = <<>>
  /\ delivered = <<>>
  /\ captureMode = "microphone"
  /\ closureCaptureMode = "microphone"
  /\ recognitionRef = Null
  /\ recog = [o \in Objects |-> NoRecognition]
  /\ owed = {}
  /\ transcript = <<>>
  /\ finals = {}
  /\ micStreamRef = Null
  /\ desktopStreamRef = Null
  /\ streamState = [o \in Objects |-> "none"]
  /\ mounted = TRUE
  /\ currentSession = Null
  /\ history = <<>>
  /\ duration = 0
  /\ quota = Unlimited
  /\ call = NoCall
  /\ response = Null
  /\ apiKeys = <<NewEntry(1)>>
  /\ validKeys = <<>>
  /\ blobIsRecording = FALSE
  /\ blobRecorderState = "none"
  /\ audioChunksRef = <<>>
  /\ flushPending = FALSE
  /\ encoded = <<>>
  /\ finalAudioBlob = Null
  /\ blobRecording = 0
  /\ procChunks = <<>>
  /\ procResult = Null
  /\ procOp = "constructor"
  /\ procAdded = 0
  /\ procTaken = <<>>
  /\ audioContext = "none"
  /\ requestLog = NotCounting
  /\ extraStarts = 0
  /\ orphanEncoders = 0
  /\ orphanIntervals = 0

\* --------------------------------------------------------------- storage
\* the chunks as they are written to storage: without their blob
WithoutBlob(chunks) ==
  [k \in 1..Len(chunks) |->
     [chunkNumber |-> chunks[k].chunkNumber, duration |-> chunks[k].duration]]

\* the SessionData built from the state of the page
SessionData ==
  [liveTranscript |-> transcript, finalTranscripts |-> finalTranscripts,
   audioChunks |-> WithoutBlob(audioChunks), totalDuration |-> duration,
   captureMode |-> captureMode]

\* the size of the JSON string of a record, in units of one list element
Size(data) ==
  1 + Len(data.liveTranscript) + Len(data.finalTranscripts) + Len(data.audioChunks)

\* localStorage.setItem throws QuotaExceededError when the record does not fit
Fits(data, q) ==
  ~q.limited \/ Size(data) <= q.room

\* saveSessionData: the record kept under "current-session" afterwards; an
\* exception of setItem is caught and logged
saveSessionData(stored, data, q) ==
  IF Fits(data, q) THEN data ELSE stored

\* the save-session effect: it runs after a render in which one of its
\* dependencies changed, and saves when there is something to save
SaveSessionEffect ==
  currentSession' =
    IF /\ <<transcript', finalTranscripts', audioChunks', duration', captureMode'>>
            # <<transcript, finalTranscripts, audioChunks, duration, captureMode>>
       /\ (transcript' # <<>> \/ finalTranscripts' # <<>> \/ audioChunks' # <<>>)
    THEN saveSessionData(currentSession, SessionData', quota)
    ELSE currentSession

\* now.getTime() of the newest entry of a history (0 for an empty one)
NewestId(h) ==
  IF h = <<>> THEN 0
  ELSE CHOOSE id \in {h[k].id : k \in 1..Len(h)} : \A k \in 1..Len(h) : h[k].id <= id

\* an archive that keeps every entry
saveSessionToHistoryUnbounded(h, data, s) ==
  IF data.liveTranscript = <<>> /\ data.finalTranscripts = <<>> /\ data.totalDuration = 0
  THEN h
  ELSE <<[id |-> NewestId(h) + 1,
          session |-> s,
          totalDuration |-> data.totalDuration,
          totalChunks |-> Len(data.audioChunks),
          liveTranscript |-> Len(data.liveTranscript),
          finalTranscripts |-> Len(data.finalTranscripts)]>> \o h

\* saveSessionToHistory: nothing for a session without meaningful data, else
\* the new entry in front and the first MaxHistory entries kept.  An entry
\* is kept as its id, its summary numbers and the sizes of its two
\* transcripts; s is the recording session the data belongs to.
saveSessionToHistory(h, data, s) ==
  IF data.liveTranscript = <<>> /\ data.finalTranscripts = <<>> /\ data.totalDuration = 0
  THEN h
  ELSE LET sessionEntry == [id |-> NewestId(h) + 1,
                            session |-> s,
                            totalDuration |-> data.totalDuration,
                            totalChunks |-> Len(data.audioChunks),
                            liveTranscript |-> Len(data.liveTranscript),
                            finalTranscripts |-> Len(data.finalTranscripts)]
           unshifted == <<sessionEntry>> \o h
       IN SubSeq(unshifted, 1, IF Len(unshifted) < MaxHistory THEN Len(unshifted) ELSE MaxHistory)

\* ------------------------------------------------------------ RecorderUI
\* handleToggleRecording -> startRecording, up to the first await.  The
\* listeners it will register call the saveCurrentChunk of this render.
StartRecording ==
  /\ mounted
  /\ ~isRecording
  /\ ~starting
  /\ session < MaxSessions
  /\ starting' = TRUE
  /\ closureChunkNumber' = currentChunkNumber
  /\ closureCaptureMode' = captureMode
  /\ session' = session + 1
  /\ UNCHANGED <<isRecording, currentChunkNumber, recorderState, chunkData, stopEvent,
                 restartTimer, chunkInterval, audioChunks, finalTranscripts, pageKeys>>
  /\ UNCHANGED dispVars
  /\ UNCHANGED <<sealCount, resets, attempted, failed, lastRequest, outOfOrder, serviceScript, delivered>>
  /\ UNCHANGED <<captureMode, recognitionRef, recog, owed, transcript, finals>>
  /\ UNCHANGED streamVars
  /\ history' = IF currentSession # Null
                THEN saveSessionToHistory(history, SessionData, session)
                ELSE history
  /\ currentSession' = Null
  /\ UNCHANGED <<duration, quota>>
  /\ UNCHANGED callVars
  /\ UNCHANGED settingsVars
  /\ UNCHANGED blobVars
  /\ UNCHANGED processorVars
  /\ UNCHANGED mixerVars
  /\ UNCHANGED countVars
  /\ UNCHANGED toggleVars

\* the record button clicked again while a startRecording call is still
\* awaiting its devices (isRecording is still false): a second call of
\* startRecording with the same closure
StartRecordingAgain ==
  /\ mounted
  /\ ~isRecording
  /\ starting
  /\ extraStarts < MaxExtraStarts
  /\ session < MaxSessions + MaxExtraStarts
  /\ closureChunkNumber = currentChunkNumber
  /\ closureCaptureMode = captureMode
  /\ extraStarts' = extraStarts + 1
  /\ session' = session + 1
  /\ UNCHANGED <<isRecording, starting, currentChunkNumber, closureChunkNumber, recorderState, chunkData, stopEvent,
                 restartTimer, chunkInterval, audioChunks, finalTranscripts, pageKeys>>
  /\ UNCHANGED dispVars
  /\ UNCHANGED <<sealCount, resets, attempted, failed, lastRequest, outOfOrder, serviceScript, delivered>>
  /\ UNCHANGED <<captureMode, closureCaptureMode, recognitionRef, recog, owed, transcript, finals>>
  /\ UNCHANGED streamVars
  /\ history' = IF currentSession # Null
                THEN saveSessionToHistory(history, SessionData, session)
                ELSE history
  /\ currentSession' = Null
  /\ UNCHANGED <<duration, quota>>
  /\ UNCHANGED callVars
  /\ UNCHANGED settingsVars
  /\ UNCHANGED blobVars
  /\ UNCHANGED processorVars
  /\ UNCHANGED mixerVars
  /\ UNCHANGED countVars
  /\ UNCHANGED <<orphanEncoders, orphanIntervals>>

\* the session number of the startRecording call that settles first
PendingSession == session - extraStarts

\* a mode "both" that needs both of its sources
StreamsAllOrNothing(mode, micOk, deskOk) ==
  CASE mode = "microphone" -> IF micOk THEN {"mic"} ELSE {}
    [] mode = "desktop" -> IF deskOk THEN {"desktop"} ELSE IF micOk THEN {"mic"} ELSE {}
    [] mode = "both" -> IF micOk /\ deskOk THEN {"mic", "desktop"} ELSE {}

\* The streams startRecording ends up with: micOk says whether getUserMedia
\* resolves, deskOk whether startDesktopCapture does.  In mode "both" a
\* failure is caught per source; in mode "desktop" a failure falls back
\* to the microphone.
Streams(mode, micOk, deskOk) ==
  CASE mode = "microphone" -> IF micOk THEN {"mic"} ELSE {}
    [] mode = "desktop" -> IF deskOk THEN {"desktop"} ELSE IF micOk THEN {"mic"} ELSE {}
    [] mode = "both" -> (IF micOk THEN {"mic"} ELSE {}) \cup (IF deskOk THEN {"desktop"} ELSE {})

\* the setCaptureMode calls of the catch blocks
FallbackMode(mode, current, micOk, deskOk) ==
  IF mode \in {"desktop", "both"} /\ ~deskOk THEN "microphone"
  ELSE IF mode = "both" /\ ~micOk THEN "desktop"
       ELSE current

\* the error reaches the outer catch block of startRecording
StartThrows(mode, micOk, deskOk) ==
  /\ mode \in {"microphone", "desktop"}
  /\ Streams(mode, micOk, deskOk) = {}

\* setupMicRecognition stores its object in recognitionRef and starts it
setupMicRecognition(ref, kinds, s) ==
  IF "mic" \in kinds THEN <<s, "mic">> ELSE ref

\* setupMicRecognition / setupDesktopRecognition: recognition.start()
StartedRecognitions(r, kinds, s) ==
  [o \in Objects |->
     IF o[1] = s /\ o[2] \in kinds /\ ~r[o].created
     THEN [NoRecognition EXCEPT !.created = TRUE, !.running = TRUE]
     ELSE r[o]]

\* The streams the attempt acquires: getUserMedia is called in modes
\* "microphone" and "both", and as the fallback of mode "desktop";
\* shared says whether getDisplayMedia resolves (startDesktopCapture
\* still throws when the share has no audio track: shared and not deskOk).
Acquired(mode, micOk, deskOk, shared, s) ==
  (IF micOk /\ (mode # "desktop" \/ ~deskOk) THEN {<<s, "mic">>} ELSE {})
    \cup (IF shared /\ mode # "microphone" THEN {<<s, "desktop">>} ELSE {})

\* getUserMedia / getDisplayMedia hand out streams with live tracks
AcquireStreams(st, handles) ==
  [o \in Objects |-> IF o \in handles THEN "live" ELSE st[o]]

\* setupMicRecognition / setupDesktopRecognition store the stream they get
StoreStream(ref, kind, kinds, s) ==
  IF kind \in kinds THEN <<s, kind>> ELSE ref

\* cleanupAudioProcessing: getTracks().forEach((track) => track.stop()) on
\* the streams the two refs hold
stopTracks(st, refs) ==
  [o \in Objects |->
     IF o \in refs
     THEN (IF st[o] = "live" THEN "released" ELSE "releasedTwice")
     ELSE st[o]]

\* this attempt already ran setupMicRecognition and now awaits the desktop share
MicStarted == starting /\ recog[<<PendingSession, "mic">>].created

\* startRecording in mode "both" up to the await of startDesktopCapture:
\* getUserMedia resolved and setupMicRecognition stored the stream, created
\* the recognition object and started it.
StartRecordingMicAcquired ==
  /\ starting
  /\ closureCaptureMode = "both"
  /\ ~MicStarted
  /\ recognitionRef' = setupMicRecognition(recognitionRef, {"mic"}, PendingSession)
  /\ recog' = StartedRecognitions(recog, {"mic"}, PendingSession)
  /\ micStreamRef' = StoreStream(micStreamRef, "mic", {"mic"}, PendingSession)
  /\ streamState' = AcquireStreams(streamState, {<<PendingSession, "mic">>})
  /\ UNCHANGED pageVars
  /\ UNCHANGED dispVars
  /\ UNCHANGED histVars
  /\ UNCHANGED <<captureMode, closureCaptureMode, owed, transcript, finals>>
  /\ UNCHANGED <<desktopStreamRef, mounted>>
  /\ UNCHANGED storeVars
  /\ UNCHANGED callVars
  /\ UNCHANGED settingsVars
  /\ UNCHANGED blobVars
  /\ UNCHANGED processorVars
  /\ UNCHANGED mixerVars
  /\ UNCHANGED countVars
  /\ UNCHANGED toggleVars

\* startRecording after the streams were acquired: recognition set up, new
\* MediaRecorder on the mixed stream (if there is any stream), listeners,
\* start(1000), state reset, chunk interval.
StartRecordingAcquired(micOk, deskOk, shared) ==
  /\ starting
  /\ ~stopEvent
  /\ deskOk => shared
  /\ MicStarted => micOk
  /\ ~StartThrows(closureCaptureMode, micOk, deskOk)
  /\ LET kinds == Streams(closureCaptureMode, micOk, deskOk)
     IN /\ recorderState' = IF kinds # {} THEN "recording" ELSE recorderState
        /\ chunkData' = IF kinds # {} THEN <<>> ELSE chunkData
        /\ delivered' = IF kinds # {} THEN <<>> ELSE chunkData
        /\ recognitionRef' = setupMicRecognition(recognitionRef, kinds, PendingSession)
        /\ recog' = StartedRecognitions(recog, kinds, PendingSession)
        /\ micStreamRef' = StoreStream(micStreamRef, "mic", kinds, PendingSession)
        /\ desktopStreamRef' = StoreStream(desktopStreamRef, "desktop", kinds, PendingSession)
  /\ streamState' = AcquireStreams(streamState,
                                   Acquired(closureCaptureMode, micOk, deskOk, shared, PendingSession))
  /\ captureMode' = FallbackMode(closureCaptureMode, captureMode, micOk, deskOk)
  /\ starting' = (extraStarts > 0)
  /\ extraStarts' = IF extraStarts > 0 THEN extraStarts - 1 ELSE 0
  /\ isRecording' = TRUE
  /\ currentChunkNumber' = 1
  /\ finalTranscripts' = <<>>
  /\ audioChunks' = <<>>
  /\ chunkInterval' = TRUE
  /\ sealCount' = 0
  /\ attempted' = {}
  /\ failed' = {}
  /\ UNCHANGED <<closureChunkNumber, stopEvent, restartTimer, pageKeys>>
  /\ UNCHANGED dispVars
  /\ UNCHANGED <<session, resets, lastRequest, outOfOrder, serviceScript>>
  /\ transcript' = <<>>
  /\ finals' = {}
  /\ UNCHANGED <<closureCaptureMode, owed, mounted>>
  /\ duration' = 0
  /\ UNCHANGED <<history, quota>>
  /\ UNCHANGED callVars
  /\ UNCHANGED settingsVars
  /\ UNCHANGED blobVars
  /\ UNCHANGED processorVars
  /\ audioContext' = IF Streams(closureCaptureMode, micOk, deskOk) # {}
                     THEN "running" ELSE audioContext
  /\ UNCHANGED countVars
  /\ orphanEncoders' = IF Streams(closureCaptureMode, micOk, deskOk) # {}
                          /\ recorderState = "recording"
                       THEN orphanEncoders + 1 ELSE orphanEncoders
  /\ orphanIntervals' = IF chunkInterval THEN orphanIntervals + 1 ELSE orphanIntervals
  /\ SaveSessionEffect

\* startRecording ending in its outer catch block: no stream could be
\* acquired in mode "microphone" or "desktop", or streams were acquired and
\* recognition was set up, and then getAudioContext() returns nothing or the
\* AudioContext / MediaRecorder constructor throws.
StartRecordingFailed(micOk, deskOk, shared) ==
  /\ starting
  /\ deskOk => shared
  /\ MicStarted => micOk
  /\ LET kinds == Streams(closureCaptureMode, micOk, deskOk)
     IN /\ StartThrows(closureCaptureMode, micOk, deskOk) \/ kinds # {}
        /\ recognitionRef' = setupMicRecognition(recognitionRef, kinds, PendingSession)
        /\ recog' = StartedRecognitions(recog, kinds, PendingSession)
        /\ micStreamRef' = StoreStream(micStreamRef, "mic", kinds, PendingSession)
        /\ desktopStreamRef' = StoreStream(desktopStreamRef, "desktop", kinds, PendingSession)
  /\ streamState' = AcquireStreams(streamState,
                                   Acquired(closureCaptureMode, micOk, deskOk, shared, PendingSession))
  /\ starting' = (extraStarts > 0)
  /\ extraStarts' = IF extraStarts > 0 THEN extraStarts - 1 ELSE 0
  /\ isRecording' = FALSE
  /\ captureMode' = FallbackMode(closureCaptureMode, captureMode, micOk, deskOk)
  /\ UNCHANGED <<currentChunkNumber, closureChunkNumber, recorderState, chunkData,
                 stopEvent, restartTimer, chunkInterval, audioChunks, finalTranscripts,
                 pageKeys>>
  /\ UNCHANGED dispVars
  /\ UNCHANGED histVars
  /\ UNCHANGED <<closureCaptureMode, owed, transcript, finals, mounted>>
  /\ UNCHANGED <<history, duration, quota>>
  /\ UNCHANGED callVars
  /\ UNCHANGED settingsVars
  /\ UNCHANGED blobVars
  /\ UNCHANGED processorVars
  /\ UNCHANGED mixerVars
  /\ UNCHANGED countVars
  /\ UNCHANGED <<orphanEncoders, orphanIntervals>>
  /\ SaveSessionEffect

\* one of the Mode buttons
setCaptureMode(m) ==
  /\ mounted
  /\ m # captureMode
  /\ captureMode' = m
  /\ UNCHANGED pageVars
  /\ UNCHANGED dispVars
  /\ UNCHANGED histVars
  /\ UNCHANGED <<closureCaptureMode, recognitionRef, recog, owed, transcript, finals>>
  /\ UNCHANGED streamVars
  /\ UNCHANGED <<history, duration, quota>>
  /\ UNCHANGED callVars
  /\ UNCHANGED settingsVars
  /\ UNCHANGED blobVars
  /\ UNCHANGED processorVars
  /\ UNCHANGED mixerVars
  /\ UNCHANGED countVars
  /\ UNCHANGED toggleVars
  /\ SaveSessionEffect

\* the duration timer of the isRecording effect, once a second
DurationTick ==
  /\ isRecording
  /\ mounted
  /\ duration < MaxDuration
  /\ duration' = duration + 1
  /\ UNCHANGED pageVars
  /\ UNCHANGED dispVars
  /\ UNCHANGED histVars
  /\ UNCHANGED recogVars
  /\ UNCHANGED streamVars
  /\ UNCHANGED <<history, quota>>
  /\ UNCHANGED callVars
  /\ UNCHANGED settingsVars
  /\ UNCHANGED blobVars
  /\ UNCHANGED processorVars
  /\ UNCHANGED mixerVars
  /\ UNCHANGED countVars
  /\ UNCHANGED toggleVars
  /\ SaveSessionEffect

\* the 'dataavailable' listener (event.data.size > 0)
DataAvailable ==
  /\ recorderState = "recording"
  /\ Len(chunkData) < MaxData
  /\ chunkData' = Append(chunkData, <<sealCount + 1, Len(chunkData) + 1>>)
  /\ delivered' = Append(delivered, <<sealCount + 1, Len(chunkData) + 1>>)
  /\ UNCHANGED <<isRecording, starting, currentChunkNumber, closureChunkNumber,
                 recorderState, stopEvent, restartTimer, chunkInterval, audioChunks,
                 finalTranscripts, pageKeys>>
  /\ UNCHANGED dispVars
  /\ UNCHANGED <<session, sealCount, resets, attempted, failed, lastRequest, outOfOrder,
                 serviceScript>>
  /\ UNCHANGED recogVars
  /\ UNCHANGED streamVars
  /\ UNCHANGED <<history, duration, quota>>
  /\ UNCHANGED callVars
  /\ UNCHANGED settingsVars
  /\ UNCHANGED blobVars
  /\ UNCHANGED processorVars
  /\ UNCHANGED mixerVars
  /\ UNCHANGED countVars
  /\ UNCHANGED toggleVars
  /\ SaveSessionEffect

\* the chunk interval callback
ChunkIntervalFires ==
  /\ chunkInterval \/ orphanIntervals > 0
  /\ isRecording
  /\ recorderState = "recording"
  /\ sealCount < MaxTimerSeals
  /\ recorderState' = "inactive"
  /\ stopEvent' = TRUE
  /\ UNCHANGED <<isRecording, starting, currentChunkNumber, closureChunkNumber,
                 chunkData, restartTimer, chunkInterval, audioChunks, finalTranscripts,
                 pageKeys>>
  /\ UNCHANGED dispVars
  /\ UNCHANGED histVars
  /\ UNCHANGED recogVars
  /\ UNCHANGED streamVars
  /\ UNCHANGED <<history, duration, quota>>
  /\ UNCHANGED callVars
  /\ UNCHANGED settingsVars
  /\ UNCHANGED blobVars
  /\ UNCHANGED processorVars
  /\ UNCHANGED mixerVars
  /\ UNCHANGED countVars
  /\ UNCHANGED toggleVars
  /\ SaveSessionEffect

\* a seal that builds a chunk whatever the buffer holds
HasChunkDataAlways(data, recorder) ==
  recorder # "none"

\* saveCurrentChunk's condition: the buffer holds a blob and there is an encoder
HasChunkData(data, recorder) ==
  Len(data) > 0 /\ recorder # "none"

\* a chunk built without the first blob of its interval
saveCurrentChunkWithoutFirstBlob ==
  [blob |-> Tail(chunkData), chunkNumber |-> closureChunkNumber, duration |-> CHUNK_DURATION,
   id |-> <<session, sealCount + 1>>]

\* saveCurrentChunk as called by the 'stop' listener, followed by the
\* auto-process effect of the render the new chunk causes
saveCurrentChunk ==
  [blob |-> chunkData, chunkNumber |-> closureChunkNumber, duration |-> CHUNK_DURATION,
   id |-> <<session, sealCount + 1>>]

RecorderStopped ==
  /\ stopEvent
  /\ stopEvent' = FALSE
  /\ restartTimer' = (restartTimer \/ isRecording)
  /\ IF HasChunkData(chunkData, recorderState)
     THEN LET chunks == Append(audioChunks, saveCurrentChunk)
              e == AutoProcess(chunks, processedChunks, geminiApiKeys, processingRef,
                               error, loops)
          IN /\ audioChunks' = chunks
             /\ chunkData' = <<>>
             /\ currentChunkNumber' = currentChunkNumber + 1
             /\ sealCount' = sealCount + 1
             /\ processingRef' = e.processingRef
             /\ error' = e.error
             /\ loops' = e.loops
             /\ failed' = IF e.fired THEN {} ELSE failed
     ELSE UNCHANGED <<audioChunks, chunkData, currentChunkNumber, sealCount,
                      processingRef, error, loops, failed>>
  /\ UNCHANGED <<isRecording, starting, closureChunkNumber, recorderState,
                 chunkInterval, finalTranscripts, pageKeys>>
  /\ UNCHANGED <<geminiApiKeys, processedChunks, completedTranscripts>>
  /\ UNCHANGED <<session, resets, attempted, lastRequest, outOfOrder, serviceScript, delivered>>
  /\ UNCHANGED recogVars
  /\ UNCHANGED streamVars
  /\ UNCHANGED <<history, duration, quota>>
  /\ UNCHANGED callVars
  /\ UNCHANGED settingsVars
  /\ UNCHANGED blobVars
  /\ UNCHANGED processorVars
  /\ audioContext' = IF isRecording THEN audioContext ELSE "closed"
  /\ UNCHANGED countVars
  /\ UNCHANGED toggleVars
  /\ SaveSessionEffect

\* the restart timeout that never calls mediaRecorderRef.current.start
restartNever ==
  /\ restartTimer
  /\ restartTimer' = FALSE
  /\ UNCHANGED <<isRecording, starting, currentChunkNumber, closureChunkNumber,
                 recorderState, chunkData, stopEvent, chunkInterval, audioChunks,
                 finalTranscripts, pageKeys>>
  /\ UNCHANGED dispVars
  /\ UNCHANGED histVars
  /\ UNCHANGED recogVars
  /\ UNCHANGED streamVars
  /\ UNCHANGED <<history, duration, quota>>
  /\ UNCHANGED callVars
  /\ UNCHANGED settingsVars
  /\ UNCHANGED blobVars
  /\ UNCHANGED processorVars
  /\ UNCHANGED mixerVars
  /\ UNCHANGED countVars
  /\ UNCHANGED toggleVars
  /\ SaveSessionEffect

\* the restart without its isRecordingRef.current condition
restartWithoutCheck ==
  /\ restartTimer
  /\ restartTimer' = FALSE
  /\ recorderState' = IF recorderState # "none" THEN "recording" ELSE recorderState
  /\ UNCHANGED <<isRecording, starting, currentChunkNumber, closureChunkNumber,
                 chunkData, stopEvent, chunkInterval, audioChunks, finalTranscripts,
                 pageKeys>>
  /\ UNCHANGED dispVars
  /\ UNCHANGED histVars
  /\ UNCHANGED recogVars
  /\ UNCHANGED streamVars
  /\ UNCHANGED <<history, duration, quota>>
  /\ UNCHANGED callVars
  /\ UNCHANGED settingsVars
  /\ UNCHANGED blobVars
  /\ UNCHANGED processorVars
  /\ UNCHANGED mixerVars
  /\ UNCHANGED countVars
  /\ UNCHANGED toggleVars
  /\ SaveSessionEffect

\* the 100 ms timeout: restartRecordingForNextChunk
restartRecordingForNextChunk ==
  /\ restartTimer
  /\ restartTimer' = FALSE
  /\ recorderState' = IF isRecording /\ recorderState # "none" THEN "recording"
                      ELSE recorderState
  /\ UNCHANGED <<isRecording, starting, currentChunkNumber, closureChunkNumber,
                 chunkData, stopEvent, chunkInterval, audioChunks, finalTranscripts,
                 pageKeys>>
  /\ UNCHANGED dispVars
  /\ UNCHANGED histVars
  /\ UNCHANGED recogVars
  /\ UNCHANGED streamVars
  /\ UNCHANGED <<history, duration, quota>>
  /\ UNCHANGED callVars
  /\ UNCHANGED settingsVars
  /\ UNCHANGED blobVars
  /\ UNCHANGED processorVars
  /\ UNCHANGED mixerVars
  /\ UNCHANGED countVars
  /\ UNCHANGED toggleVars
  /\ SaveSessionEffect

\* cleanupAudioProcessing: recognitionRef.current.stop() inside try / catch,
\* then recognitionRef.current = null.  The 'end' event stop() causes finds
\* recognitionRef.current and isRecordingRef.current cleared.
cleanupAudioProcessing(r, ref) ==
  IF ref = Null THEN r ELSE [r EXCEPT ![ref].running = FALSE]

stopRecording ==
  /\ isRecording
  /\ mounted
  /\ isRecording' = FALSE
  /\ recorderState' = IF recorderState = "recording" THEN "inactive" ELSE recorderState
  /\ stopEvent' = (stopEvent \/ recorderState = "recording")
  /\ chunkInterval' = FALSE
  /\ recog' = cleanupAudioProcessing(recog, recognitionRef)
  /\ recognitionRef' = Null
  /\ streamState' = stopTracks(streamState, {micStreamRef, desktopStreamRef} \ {Null})
  /\ micStreamRef' = Null
  /\ desktopStreamRef' = Null
  /\ UNCHANGED mounted
  /\ UNCHANGED <<starting, currentChunkNumber, closureChunkNumber, chunkData,
                 restartTimer, audioChunks, finalTranscripts, pageKeys>>
  /\ UNCHANGED dispVars
  /\ UNCHANGED histVars
  /\ UNCHANGED <<captureMode, closureCaptureMode, owed, transcript, finals>>
  /\ UNCHANGED <<history, duration, quota>>
  /\ UNCHANGED callVars
  /\ UNCHANGED settingsVars
  /\ UNCHANGED blobVars
  /\ UNCHANGED processorVars
  /\ UNCHANGED mixerVars
  /\ UNCHANGED countVars
  /\ UNCHANGED toggleVars
  /\ SaveSessionEffect

\* the cleanup of the unmount effect: as stopRecording, without the state
\* updates of a component that is gone
UnmountCleanup ==
  /\ mounted
  /\ isRecording' = FALSE
  /\ recorderState' = IF recorderState = "recording" THEN "inactive" ELSE recorderState
  /\ stopEvent' = (stopEvent \/ recorderState = "recording")
  /\ chunkInterval' = FALSE
  /\ recog' = cleanupAudioProcessing(recog, recognitionRef)
  /\ recognitionRef' = Null
  /\ streamState' = stopTracks(streamState, {micStreamRef, desktopStreamRef} \ {Null})
  /\ micStreamRef' = Null
  /\ desktopStreamRef' = Null
  /\ mounted' = FALSE
  /\ UNCHANGED <<starting, currentChunkNumber, closureChunkNumber, chunkData,
                 restartTimer, audioChunks, finalTranscripts, pageKeys>>
  /\ UNCHANGED dispVars
  /\ UNCHANGED histVars
  /\ UNCHANGED <<captureMode, closureCaptureMode, owed, transcript, finals>>
  /\ UNCHANGED <<history, duration, quota>>
  /\ UNCHANGED callVars
  /\ UNCHANGED settingsVars
  /\ UNCHANGED blobVars
  /\ UNCHANGED processorVars
  /\ UNCHANGED mixerVars
  /\ UNCHANGED countVars
  /\ UNCHANGED toggleVars
  /\ SaveSessionEffect



\* handleResetSession of the page (the Reset Session button of the recorder
\* card, shown while not recording and there is something to reset)
PageResetEnabled ==
  /\ ~isRecording
  /\ (audioChunks # <<>> \/ transcript # <<>> \/ finalTranscripts # <<>>)

handleResetSession ==
  /\ mounted
  /\ PageResetEnabled
  /\ resets < MaxResets
  /\ resets' = resets + 1
  /\ audioChunks' = <<>>
  /\ finalTranscripts' = <<>>
  /\ currentChunkNumber' = 1
  /\ failed' = {}
  /\ attempted' = {}
  /\ UNCHANGED <<isRecording, starting, closureChunkNumber, recorderState, chunkData,
                 stopEvent, restartTimer, chunkInterval, pageKeys>>
  /\ UNCHANGED dispVars
  /\ UNCHANGED <<session, sealCount, lastRequest, serviceScript>>
  /\ outOfOrder' = FALSE
  /\ transcript' = <<>>
  /\ finals' = {}
  /\ UNCHANGED <<captureMode, closureCaptureMode, recognitionRef, recog, owed>>
  /\ delivered' = chunkData
  /\ UNCHANGED streamVars
  /\ history' = saveSessionToHistory(history, SessionData, session)
  /\ duration' = 0
  /\ currentSession' = Null
  /\ UNCHANGED quota
  /\ UNCHANGED callVars
  /\ UNCHANGED settingsVars
  /\ UNCHANGED blobVars
  /\ UNCHANGED processorVars
  /\ UNCHANGED mixerVars
  /\ UNCHANGED countVars
  /\ UNCHANGED toggleVars

\* GeminiSettings: onApiKeysChange(validKeys) -> setGeminiApiKeys of the page;
\* the [propApiKeys] effect of FinalTranscript copies a non-empty pool
SetApiKeys(k) ==
  /\ PoolOf(k) # pageKeys
  /\ pageKeys' = PoolOf(k)
  /\ LET keys == IF k > 0 THEN PoolOf(k) ELSE geminiApiKeys
         e == IF Len(keys) # Len(geminiApiKeys)
              THEN AutoProcess(audioChunks, processedChunks, keys, processingRef,
                               error, loops)
              ELSE [processingRef |-> processingRef, error |-> error,
                    fired |-> FALSE, loops |-> loops]
     IN /\ geminiApiKeys' = keys
        /\ processingRef' = e.processingRef
        /\ error' = e.error
        /\ loops' = e.loops
        /\ failed' = IF e.fired THEN {} ELSE failed
  /\ UNCHANGED <<isRecording, starting, currentChunkNumber, closureChunkNumber,
                 recorderState, chunkData, stopEvent, restartTimer, chunkInterval,
                 audioChunks, finalTranscripts>>
  /\ UNCHANGED <<processedChunks, completedTranscripts>>
  /\ UNCHANGED <<session, sealCount, resets, attempted, lastRequest, outOfOrder, serviceScript, delivered>>
  /\ UNCHANGED recogVars
  /\ UNCHANGED streamVars
  /\ UNCHANGED <<history, duration, quota>>
  /\ UNCHANGED callVars
  /\ UNCHANGED settingsVars
  /\ UNCHANGED blobVars
  /\ UNCHANGED processorVars
  /\ UNCHANGED mixerVars
  /\ UNCHANGED countVars
  /\ UNCHANGED toggleVars
  /\ SaveSessionEffect

\* ------------------------------------------------------- FinalTranscript
\* handleResetSession of FinalTranscript, which calls onResetSession (the
\* page's handleResetSession) in the same event
DispatcherReset ==
  /\ resets < MaxResets
  /\ resets' = resets + 1
  /\ completedTranscripts' = <<>>
  /\ processedChunks' = {}
  /\ error' = Null
  /\ processingRef' = FALSE
  /\ audioChunks' = <<>>
  /\ finalTranscripts' = <<>>
  /\ currentChunkNumber' = 1
  /\ failed' = {}
  /\ attempted' = {}
  /\ UNCHANGED <<isRecording, starting, closureChunkNumber, recorderState, chunkData,
                 stopEvent, restartTimer, chunkInterval, pageKeys>>
  /\ UNCHANGED <<geminiApiKeys, loops>>
  /\ UNCHANGED <<session, sealCount, lastRequest, serviceScript>>
  /\ outOfOrder' = FALSE
  /\ transcript' = <<>>
  /\ finals' = {}
  /\ UNCHANGED <<captureMode, closureCaptureMode, recognitionRef, recog, owed>>
  /\ delivered' = chunkData
  /\ UNCHANGED streamVars
  /\ history' = IF transcript # <<>> \/ finalTranscripts # <<>> \/ audioChunks # <<>>
                THEN saveSessionToHistory(history, SessionData, session)
                ELSE history
  /\ duration' = 0
  /\ currentSession' = Null
  /\ UNCHANGED quota
  /\ UNCHANGED callVars
  /\ UNCHANGED settingsVars
  /\ UNCHANGED blobVars
  /\ UNCHANGED processorVars
  /\ UNCHANGED mixerVars
  /\ UNCHANGED countVars
  /\ UNCHANGED toggleVars

\* processAudioChunk(chunkIndex) of the render that started loop l, up to its
\* first request; conv tells whether convertToMp3 / arrayBuffer succeed
processAudioChunk(l, i, conv) ==
  LET base == [l EXCEPT !.chunkIndex = i, !.retryCount = 0, !.apiKey = 0]
  IN IF i \in l.processedChunks \/ i >= Len(l.audioChunks)
     THEN [base EXCEPT !.phase = "delay", !.result = "skipped"]
     ELSE IF ~conv \/ Len(l.keys) = 0
          THEN [base EXCEPT !.phase = "delay", !.result = "noaudio"]
          ELSE [base EXCEPT !.phase = "inflight", !.result = "none",
                            !.apiKey = getApiKeyForChunk(i, l.keys)]

\* processChunks: the loop has just been started, or the 1 s delay after a
\* chunk has elapsed; the for loop takes its next index or ends
LoopStep(n) ==
  /\ loops[n].phase \in {"next", "delay"}
  /\ LET l == loops[n]
         q == IF l.phase = "delay" THEN Tail(l.queue) ELSE l.queue
     IN IF q = <<>>
        THEN /\ loops' = [loops EXCEPT ![n] = NoLoop]
             /\ processingRef' = FALSE
             /\ UNCHANGED <<error, attempted, failed, lastRequest, requestLog>>
        ELSE \E conv \in BOOLEAN :
               LET i == Head(q)
                   b == processAudioChunk([l EXCEPT !.queue = q], i, conv)
               IN /\ loops' = [loops EXCEPT ![n] = b]
                  /\ error' = IF b.result = "noaudio" THEN <<i>> ELSE error
                  /\ attempted' = IF b.result # "skipped"
                                  THEN attempted \cup
                                       ({l.audioChunks[i + 1].id} \cap Ids(audioChunks))
                                  ELSE attempted
                  /\ failed' = failed \ {i}
                  /\ lastRequest' = IF b.phase = "inflight" THEN Request(b)
                                    ELSE lastRequest
                  /\ requestLog' = IF b.phase = "inflight"
                                   THEN CountRequest(requestLog, l.audioChunks[i + 1].id)
                                   ELSE requestLog
                  /\ UNCHANGED processingRef
  /\ UNCHANGED pageVars
  /\ UNCHANGED <<geminiApiKeys, processedChunks, completedTranscripts>>
  /\ UNCHANGED <<session, sealCount, resets, outOfOrder, serviceScript, delivered>>
  /\ UNCHANGED recogVars
  /\ UNCHANGED streamVars
  /\ UNCHANGED <<history, duration, quota>>
  /\ UNCHANGED callVars
  /\ UNCHANGED settingsVars
  /\ UNCHANGED blobVars
  /\ UNCHANGED processorVars
  /\ UNCHANGED mixerVars
  /\ UNCHANGED toggleVars
  /\ SaveSessionEffect

\* the awaited transcribeMP3WithGemini call of loop n settles: it resolves
\* with a transcript ("ok"), resolves with {success: false} ("fail") or
\* rejects ("throw")
RequestSettles(n, outcome) ==
  /\ loops[n].phase = "inflight"
  /\ LET l == loops[n]
         i == l.chunkIndex
         t == TranscriptOf(l.audioChunks[i + 1])
     IN CASE outcome = "ok" ->
               LET processed == processedChunks \cup {i}
                   lps == [loops EXCEPT ![n].phase = "delay", ![n].result = "success"]
                   e == AutoProcess(audioChunks, processed, geminiApiKeys,
                                    processingRef, error, lps)
               IN /\ completedTranscripts' = ArraySet(completedTranscripts, i, t)
                  /\ processedChunks' = processed
                  /\ finalTranscripts' = ArraySet(finalTranscripts, i, t)
                  /\ processingRef' = e.processingRef
                  /\ error' = e.error
                  /\ loops' = e.loops
                  /\ failed' = IF e.fired THEN {} ELSE failed \ {i}
                  /\ outOfOrder' = (outOfOrder \/ \E j \in processedChunks : j > i)
          [] outcome = "fail" \/ (outcome = "throw" /\ l.retryCount + 1 > maxRetries) ->
               /\ error' = <<i>>
               /\ loops' = [loops EXCEPT ![n].phase = "delay", ![n].result = "error"]
               /\ failed' = IF outcome = "throw" THEN failed \cup {i} ELSE failed
               /\ UNCHANGED <<completedTranscripts, processedChunks, finalTranscripts,
                              processingRef, outOfOrder>>
          [] OTHER ->
               /\ loops' = [loops EXCEPT ![n].phase = "backoff",
                                         ![n].retryCount = l.retryCount + 1]
               /\ UNCHANGED <<completedTranscripts, processedChunks, finalTranscripts,
                              processingRef, error, failed, outOfOrder>>
  /\ UNCHANGED <<isRecording, starting, currentChunkNumber, closureChunkNumber,
                 recorderState, chunkData, stopEvent, restartTimer, chunkInterval,
                 audioChunks, pageKeys>>
  /\ UNCHANGED geminiApiKeys
  /\ UNCHANGED <<session, sealCount, resets, attempted, lastRequest, serviceScript, delivered>>
  /\ UNCHANGED recogVars
  /\ UNCHANGED streamVars
  /\ UNCHANGED <<history, duration, quota>>
  /\ UNCHANGED callVars
  /\ UNCHANGED settingsVars
  /\ UNCHANGED blobVars
  /\ UNCHANGED processorVars
  /\ UNCHANGED mixerVars
  /\ UNCHANGED countVars
  /\ UNCHANGED toggleVars
  /\ SaveSessionEffect

\* the service answers as it likes, or as the script says when there is one
RequestReturns(n) ==
  \E outcome \in Outcomes :
    /\ serviceScript # <<>> => outcome = serviceScript[loops[n].retryCount + 1]
    /\ RequestSettles(n, outcome)

\* the 2 s wait before a retry has elapsed: the request is issued again
RetryRequest(n) ==
  /\ loops[n].phase = "backoff"
  /\ loops' = [loops EXCEPT ![n].phase = "inflight"]
  /\ lastRequest' = Request(loops[n])
  /\ UNCHANGED pageVars
  /\ UNCHANGED <<geminiApiKeys, processedChunks, completedTranscripts, error,
                 processingRef>>
  /\ UNCHANGED <<session, sealCount, resets, attempted, failed, outOfOrder,
                 serviceScript, delivered>>
  /\ UNCHANGED recogVars
  /\ UNCHANGED streamVars
  /\ UNCHANGED <<history, duration, quota>>
  /\ UNCHANGED callVars
  /\ UNCHANGED settingsVars
  /\ UNCHANGED blobVars
  /\ UNCHANGED processorVars
  /\ UNCHANGED mixerVars
  /\ requestLog' = CountRequest(requestLog,
                              loops[n].audioChunks[loops[n].chunkIndex + 1].id)
  /\ UNCHANGED toggleVars
  /\ SaveSessionEffect

\* ------------------------------------------------------ speech recognition
\* recognition.start(): on a running object it throws InvalidStateError,
\* which the callers catch; otherwise a new recognition begins, whose result
\* list starts empty
start(r, o) ==
  IF r[o].running THEN r ELSE [r EXCEPT ![o].running = TRUE, ![o].results = <<>>]

\* recognition.onend: the engine of object o stops by itself
RecognitionEnds(o) ==
  /\ recog[o].running
  /\ recog[o].endTimers < MaxPending
  /\ recog' = [recog EXCEPT ![o].running = FALSE,
                            ![o].endTimers = IF recognitionRef = o /\ isRecording
                                             THEN @ + 1 ELSE @]
  /\ owed' = IF isRecording THEN owed \cup {o} ELSE owed
  /\ UNCHANGED pageVars
  /\ UNCHANGED dispVars
  /\ UNCHANGED histVars
  /\ UNCHANGED <<captureMode, closureCaptureMode, recognitionRef, transcript, finals>>
  /\ UNCHANGED streamVars
  /\ UNCHANGED <<history, duration, quota>>
  /\ UNCHANGED callVars
  /\ UNCHANGED settingsVars
  /\ UNCHANGED blobVars
  /\ UNCHANGED processorVars
  /\ UNCHANGED mixerVars
  /\ UNCHANGED countVars
  /\ UNCHANGED toggleVars
  /\ SaveSessionEffect

\* recognition.onerror with event.error === "no-speech"
RecognitionNoSpeech(o) ==
  /\ recog[o].running
  /\ recog[o].noSpeechTimers < MaxPending
  /\ recog' = [recog EXCEPT ![o].noSpeechTimers = @ + 1]
  /\ owed' = IF isRecording THEN owed \cup {o} ELSE owed
  /\ UNCHANGED pageVars
  /\ UNCHANGED dispVars
  /\ UNCHANGED histVars
  /\ UNCHANGED <<captureMode, closureCaptureMode, recognitionRef, transcript, finals>>
  /\ UNCHANGED streamVars
  /\ UNCHANGED <<history, duration, quota>>
  /\ UNCHANGED callVars
  /\ UNCHANGED settingsVars
  /\ UNCHANGED blobVars
  /\ UNCHANGED processorVars
  /\ UNCHANGED mixerVars
  /\ UNCHANGED countVars
  /\ UNCHANGED toggleVars
  /\ SaveSessionEffect

\* the 500 ms timeout of onend: recognition.start() without a further check
EndTimerFires(o) ==
  /\ recog[o].endTimers > 0
  /\ recog' = start([recog EXCEPT ![o].endTimers = @ - 1], o)
  /\ owed' = owed \ {o}
  /\ UNCHANGED pageVars
  /\ UNCHANGED dispVars
  /\ UNCHANGED histVars
  /\ UNCHANGED <<captureMode, closureCaptureMode, recognitionRef, transcript, finals>>
  /\ UNCHANGED streamVars
  /\ UNCHANGED <<history, duration, quota>>
  /\ UNCHANGED callVars
  /\ UNCHANGED settingsVars
  /\ UNCHANGED blobVars
  /\ UNCHANGED processorVars
  /\ UNCHANGED mixerVars
  /\ UNCHANGED countVars
  /\ UNCHANGED toggleVars
  /\ SaveSessionEffect

\* the 1000 ms timeout of onerror: recognition.start() if the object is still
\* the one in recognitionRef and the recording is still on
NoSpeechTimerFires(o) ==
  /\ recog[o].noSpeechTimers > 0
  /\ IF recognitionRef = o /\ isRecording
     THEN /\ recog' = start([recog EXCEPT ![o].noSpeechTimers = @ - 1], o)
          /\ owed' = owed \ {o}
     ELSE /\ recog' = [recog EXCEPT ![o].noSpeechTimers = @ - 1]
          /\ UNCHANGED owed
  /\ UNCHANGED pageVars
  /\ UNCHANGED dispVars
  /\ UNCHANGED histVars
  /\ UNCHANGED <<captureMode, closureCaptureMode, recognitionRef, transcript, finals>>
  /\ UNCHANGED streamVars
  /\ UNCHANGED <<history, duration, quota>>
  /\ UNCHANGED callVars
  /\ UNCHANGED settingsVars
  /\ UNCHANGED blobVars
  /\ UNCHANGED processorVars
  /\ UNCHANGED mixerVars
  /\ UNCHANGED countVars
  /\ UNCHANGED toggleVars
  /\ SaveSessionEffect

\* ---------------------------------------------------- recognition results
\* A piece of recognized text: the length of its trimmed content, the white
\* space around it, and whether one of the aiPatterns matches it.
Text(n, pad, p) == [length |-> n, pad |-> pad, aiPattern |-> p]

NoText == Text(0, 0, FALSE)

\* text.length
Length(t) == t.length + t.pad

\* text.trim()
trim(t) == [t EXCEPT !.pad = 0]

\* finalTranscript += transcript
Concat(a, b) ==
  IF Length(a) = 0 THEN b
  ELSE Text(Length(a) + b.length, b.pad, a.aiPattern \/ b.aiPattern)

\* what the users and the assistant say in the recognition runs
SpokenTexts == {Text(8, 0, FALSE), Text(35, 0, FALSE)}

\* new Date().toLocaleTimeString([], {hour: "2-digit", minute: "2-digit", second}):
\* an option value other than "numeric" and "2-digit" throws a RangeError
toLocaleTimeString(second) ==
  IF second \in {"numeric", "2-digit"} THEN "time" ELSE "RangeError"

\* handleSpeechResult of setupMicRecognition (kind "mic") and of
\* setupDesktopRecognition (kind "desktop"): the entries it appends to the
\* transcript.  An exception leaves the transcript as it is.
handleSpeechResult(kind, text, isFinal, ids) ==
  IF kind = "mic"
  THEN IF isFinal /\ Length(text) > 0 /\ toLocaleTimeString("2-digit") # "RangeError"
       THEN <<[speaker |-> "user", source |-> "microphone", results |-> ids]>>
       ELSE <<>>
  ELSE LET t == trim(text)
           isLikelyAI == t.aiPattern \/ Length(t) > 30
       IN IF isFinal /\ Length(t) > 10 /\ isLikelyAI
             /\ toLocaleTimeString("second") # "RangeError"
          THEN <<[speaker |-> "ai", source |-> "system", results |-> ids]>>
          ELSE <<>>

\* the 0-based indices i >= from of the final results
RECURSIVE FinalsFrom(_, _)
FinalsFrom(results, from) ==
  IF from >= Len(results) THEN <<>>
  ELSE IF results[from + 1].isFinal
       THEN <<from>> \o FinalsFrom(results, from + 1)
       ELSE FinalsFrom(results, from + 1)

\* the texts of the results at the given indices, concatenated
RECURSIVE finalTranscript(_, _)
finalTranscript(results, idx) ==
  IF idx = <<>> THEN NoText
  ELSE Concat(results[Head(idx) + 1].text, finalTranscript(results, Tail(idx)))

\* recognition.onresult of object o on an event with the given result list:
\* the new lastFinalIndex and the entries appended
onresult(o, lastFinalIndex, results) ==
  LET idx == FinalsFrom(results, lastFinalIndex)
      text == finalTranscript(results, idx)
      ids == [k \in 1..Len(idx) |-> results[idx[k] + 1].id]
  IN [lastFinalIndex |-> IF idx = <<>> THEN lastFinalIndex ELSE idx[Len(idx)] + 1,
      entries |-> IF Length(text) > 0
                  THEN handleSpeechResult(o[2], trim(text), TRUE, ids)
                  ELSE <<>>]

\* a state update that keeps only the new entries
setTranscriptReplacing(prev, newEntries) ==
  IF newEntries = <<>> THEN prev ELSE newEntries

\* setTranscript((prev) => [...prev, newEntry])
setTranscript(prev, newEntries) ==
  prev \o newEntries

\* the engine of o reports a new interim result
RecognitionInterim(o, text) ==
  /\ recog[o].running
  /\ recog[o].made < MaxResults
  /\ LET rs == recog[o].results
     IN /\ (IF rs = <<>> THEN TRUE ELSE rs[Len(rs)].isFinal)
        /\ LET ev == Append(rs, [id |-> <<o, recog[o].made + 1>>, text |-> text,
                                  isFinal |-> FALSE])
               h == onresult(o, recog[o].lastFinalIndex, ev)
           IN /\ recog' = [recog EXCEPT ![o].results = ev, ![o].made = @ + 1,
                                         ![o].lastFinalIndex = h.lastFinalIndex]
              /\ transcript' = setTranscript(transcript, h.entries)
  /\ UNCHANGED pageVars
  /\ UNCHANGED dispVars
  /\ UNCHANGED histVars
  /\ UNCHANGED <<captureMode, closureCaptureMode, recognitionRef, owed, finals>>
  /\ UNCHANGED streamVars
  /\ UNCHANGED <<history, duration, quota>>
  /\ UNCHANGED callVars
  /\ UNCHANGED settingsVars
  /\ UNCHANGED blobVars
  /\ UNCHANGED processorVars
  /\ UNCHANGED mixerVars
  /\ UNCHANGED countVars
  /\ UNCHANGED toggleVars
  /\ SaveSessionEffect

\* the engine of o reports a final result: the interim result at the end of
\* its list becomes final, or a new result is final at once
RecognitionFinal(o, text) ==
  /\ recog[o].running
  /\ LET rs == recog[o].results
         pending == IF rs = <<>> THEN FALSE ELSE ~rs[Len(rs)].isFinal
     IN /\ IF pending THEN text = rs[Len(rs)].text ELSE recog[o].made < MaxResults
        /\ LET ev == IF pending THEN [rs EXCEPT ![Len(rs)].isFinal = TRUE]
                     ELSE Append(rs, [id |-> <<o, recog[o].made + 1>>, text |-> text,
                                      isFinal |-> TRUE])
               h == onresult(o, recog[o].lastFinalIndex, ev)
           IN /\ recog' = [recog EXCEPT ![o].results = ev,
                                         ![o].made = IF pending THEN @ ELSE @ + 1,
                                         ![o].lastFinalIndex = h.lastFinalIndex]
              /\ transcript' = setTranscript(transcript, h.entries)
              /\ finals' = finals \cup {ev[Len(ev)].id}
  /\ UNCHANGED pageVars
  /\ UNCHANGED dispVars
  /\ UNCHANGED histVars
  /\ UNCHANGED <<captureMode, closureCaptureMode, recognitionRef, owed>>
  /\ UNCHANGED streamVars
  /\ UNCHANGED <<history, duration, quota>>
  /\ UNCHANGED callVars
  /\ UNCHANGED settingsVars
  /\ UNCHANGED blobVars
  /\ UNCHANGED processorVars
  /\ UNCHANGED mixerVars
  /\ UNCHANGED countVars
  /\ UNCHANGED toggleVars
  /\ SaveSessionEffect

\* The recorder in the capture mode of the page load ("microphone") together
\* with the dispatcher; the capture-mode buttons are part of NextRecorder,
\* NextRecog and NextStartup.
Next ==
  \/ StartRecording
  \/ \E micOk, deskOk, shared \in BOOLEAN : StartRecordingAcquired(micOk, deskOk, shared)
  \/ \E micOk, deskOk, shared \in BOOLEAN : StartRecordingFailed(micOk, deskOk, shared)
  \/ DataAvailable
  \/ ChunkIntervalFires
  \/ RecorderStopped
  \/ restartRecordingForNextChunk
  \/ stopRecording
  \/ handleResetSession
  \/ DispatcherReset
  \/ \E k \in 0..MaxKeys : SetApiKeys(k)
  \/ \E n \in 1..MaxLoops : LoopStep(n)
  \/ \E n \in 1..MaxLoops : RequestReturns(n)
  \/ \E n \in 1..MaxLoops : RetryRequest(n)

Spec == Init /\ [][Next]_vars

\* What the code's scheduling guarantees: queued events are delivered, timers
\* fire and requests settle.  Nothing makes the user act.
Fairness ==
  /\ WF_vars(RecorderStopped)
  /\ WF_vars(restartRecordingForNextChunk)
  /\ \A n \in 1..MaxLoops :
       /\ WF_vars(LoopStep(n))
       /\ WF_vars(RequestReturns(n))
       /\ WF_vars(RetryRequest(n))

FairSpec == Spec /\ Fairness

\* ------------------------------------------------ the dispatcher on its own
\* A recording of n chunks was made and stopped with no credential
\* configured; the credentials are entered afterwards.  The service may be
\* scripted.
RecordedChunks(n) ==
  [k \in 1..n |-> [blob |-> <<<<k, 1>>>>, chunkNumber |-> 1, duration |-> CHUNK_DURATION,
                   id |-> <<1, k>>]]

InitDispatch ==
  \E n \in 1..MaxBatch, script \in Scripts \cup {<<>>} :
    /\ isRecording = FALSE
    /\ starting = FALSE
    /\ currentChunkNumber = n + 1
    /\ closureChunkNumber = 1
    /\ recorderState = "inactive"
    /\ chunkData = <<>>
    /\ stopEvent = FALSE
    /\ restartTimer = FALSE
    /\ chunkInterval = FALSE
    /\ audioChunks = RecordedChunks(n)
    /\ finalTranscripts = <<>>
    /\ pageKeys = <<>>
    /\ geminiApiKeys = <<>>
    /\ processedChunks = {}
    /\ completedTranscripts = <<>>
    /\ error = Null
    /\ processingRef = FALSE
    /\ loops = [m \in 1..MaxLoops |-> NoLoop]
    /\ session = 1
    /\ sealCount = n
    /\ resets = 0
    /\ attempted = {}
    /\ failed = {}
    /\ lastRequest = NoRequest
    /\ outOfOrder = FALSE
    /\ serviceScript = script
    /\ delivered = [k \in 1..n |-> <<k, 1>>]
    /\ captureMode = "microphone"
    /\ closureCaptureMode = "microphone"
    /\ recognitionRef = Null
    /\ recog = [o \in Objects |-> [NoRecognition EXCEPT !.created = (o = <<1, "mic">>)]]
    /\ owed = {}
    /\ transcript = <<>>
    /\ finals = {}
    /\ micStreamRef = Null
    /\ desktopStreamRef = Null
    /\ streamState = [o \in Objects |-> "none"]
    /\ mounted = TRUE
    /\ currentSession = Null
    /\ history = <<>>
    /\ duration = 0
    /\ quota = Unlimited
    /\ call = NoCall
    /\ response = Null
    /\ apiKeys = <<NewEntry(1)>>
    /\ validKeys = <<>>
    /\ blobIsRecording = FALSE
    /\ blobRecorderState = "none"
    /\ audioChunksRef = <<>>
    /\ flushPending = FALSE
    /\ encoded = <<>>
    /\ finalAudioBlob = Null
    /\ blobRecording = 0
    /\ procChunks = <<>>
    /\ procResult = Null
    /\ procOp = "constructor"
    /\ procAdded = 0
    /\ procTaken = <<>>
    /\ audioContext = "none"
    /\ requestLog = NotCounting
    /\ extraStarts = 0
    /\ orphanEncoders = 0
    /\ orphanIntervals = 0

NextDispatch ==
  \/ \E k \in 0..MaxKeys : SetApiKeys(k)
  \/ \E n \in 1..MaxLoops : LoopStep(n)
  \/ \E n \in 1..MaxLoops : RequestReturns(n)
  \/ \E n \in 1..MaxLoops : RetryRequest(n)

SpecDispatch == InitDispatch /\ [][NextDispatch]_vars


\* ------------------------------------------- the recognition sessions on their own
\* The page with the recording controls and the recognition engine; the
\* MediaRecorder events and the dispatcher are left out.
NextRecog ==
  \/ StartRecording
  \/ \E micOk, deskOk, shared \in BOOLEAN : StartRecordingAcquired(micOk, deskOk, shared)
  \/ \E micOk, deskOk, shared \in BOOLEAN : StartRecordingFailed(micOk, deskOk, shared)
  \/ \E m \in CaptureModes : setCaptureMode(m)
  \/ stopRecording
  \/ \E o \in Objects : RecognitionEnds(o)
  \/ \E o \in Objects : RecognitionNoSpeech(o)
  \/ \E o \in Objects, text \in SpokenTexts : RecognitionInterim(o, text)
  \/ \E o \in Objects, text \in SpokenTexts : RecognitionFinal(o, text)
  \/ \E o \in Objects : EndTimerFires(o)
  \/ \E o \in Objects : NoSpeechTimerFires(o)

SpecRecog == Init /\ [][NextRecog]_vars

\* armed timeouts fire
FairnessRecog ==
  \A o \in Objects : WF_vars(EndTimerFires(o)) /\ WF_vars(NoSpeechTimerFires(o))

FairSpecRecog == SpecRecog /\ FairnessRecog


\* ------------------------------------------- the desktop result handler on its own
\* A recording in mode "desktop" is on; the desktop-bound recognition
\* delivers interim and final results of every length, with and without
\* white space around them, matching an aiPattern or not.
AllTexts ==
  {Text(n, pad, p) : n \in 0..MaxTextLength, pad \in 0..1, p \in BOOLEAN}

InitResults ==
  /\ isRecording = TRUE
  /\ starting = FALSE
  /\ currentChunkNumber = 1
  /\ closureChunkNumber = 1
  /\ recorderState = "recording"
  /\ chunkData = <<>>
  /\ stopEvent = FALSE
  /\ restartTimer = FALSE
  /\ chunkInterval = TRUE
  /\ audioChunks = <<>>
  /\ finalTranscripts = <<>>
  /\ pageKeys = <<>>
  /\ geminiApiKeys = <<>>
  /\ processedChunks = {}
  /\ completedTranscripts = <<>>
  /\ error = Null
  /\ processingRef = FALSE
  /\ loops = [n \in 1..MaxLoops |-> NoLoop]
  /\ session = 1
  /\ sealCount = 0
  /\ resets = 0
  /\ attempted = {}
  /\ failed = {}
  /\ lastRequest = NoRequest
  /\ outOfOrder = FALSE
  /\ serviceScript = <<>>
  /\ delivered = <<>>
  /\ captureMode = "desktop"
  /\ closureCaptureMode = "desktop"
  /\ recognitionRef = Null
  /\ recog = StartedRecognitions([o \in Objects |-> NoRecognition], {"desktop"}, 1)
  /\ owed = {}
  /\ transcript = <<>>
  /\ finals = {}
  /\ micStreamRef = Null
  /\ desktopStreamRef = Null
  /\ streamState = [o \in Objects |-> "none"]
  /\ mounted = TRUE
  /\ currentSession = Null
  /\ history = <<>>
  /\ duration = 0
  /\ quota = Unlimited
  /\ call = NoCall
  /\ response = Null
  /\ apiKeys = <<NewEntry(1)>>
  /\ validKeys = <<>>
  /\ blobIsRecording = FALSE
  /\ blobRecorderState = "none"
  /\ audioChunksRef = <<>>
  /\ flushPending = FALSE
  /\ encoded = <<>>
  /\ finalAudioBlob = Null
  /\ blobRecording = 0
  /\ procChunks = <<>>
  /\ procResult = Null
  /\ procOp = "constructor"
  /\ procAdded = 0
  /\ procTaken = <<>>
  /\ audioContext = "none"
  /\ requestLog = NotCounting
  /\ extraStarts = 0
  /\ orphanEncoders = 0
  /\ orphanIntervals = 0

NextResults ==
  \/ \E text \in AllTexts : RecognitionInterim(<<1, "desktop">>, text)
  \/ \E text \in AllTexts : RecognitionFinal(<<1, "desktop">>, text)

SpecResults == InitResults /\ [][NextResults]_vars


\* ------------------------------------------------------ the recorder on its own
\* The recording controls, the encoder events and the timers, with no
\* credential configured (the dispatcher stays idle).
NextRecorder ==
  \/ StartRecording
  \/ \E micOk, deskOk, shared \in BOOLEAN : StartRecordingAcquired(micOk, deskOk, shared)
  \/ \E micOk, deskOk, shared \in BOOLEAN : StartRecordingFailed(micOk, deskOk, shared)
  \/ \E m \in CaptureModes : setCaptureMode(m)
  \/ DataAvailable
  \/ ChunkIntervalFires
  \/ RecorderStopped
  \/ restartRecordingForNextChunk
  \/ stopRecording
  \/ handleResetSession

SpecRecorder == Init /\ [][NextRecorder]_vars

\* queued events are delivered and armed timeouts fire
FairnessRecorder ==
  /\ WF_vars(RecorderStopped)
  /\ WF_vars(restartRecordingForNextChunk)

FairSpecRecorder == SpecRecorder /\ FairnessRecorder

\* ------------------------------------------------- the page and its storage
\* The page is mounted with n sessions archived earlier and, possibly, the
\* record of an earlier session in "current-session": the load effect
\* restores its live transcript, its duration and its capture mode (its
\* chunks are not restored).
ArchivedBefore(n) ==
  [k \in 1..n |-> [id |-> n + 1 - k, session |-> 0, totalDuration |-> 1,
                   totalChunks |-> 0, liveTranscript |-> 0, finalTranscripts |-> 0]]

RestoredSession ==
  [liveTranscript |-> <<[speaker |-> "user", source |-> "microphone",
                         results |-> <<<<<<0, "mic">>, 1>>>>]>>,
   finalTranscripts |-> <<>>,
   audioChunks |-> <<[chunkNumber |-> 1, duration |-> CHUNK_DURATION]>>,
   totalDuration |-> 1, captureMode |-> "microphone"]

InitStorage ==
  \E archived \in {0, MaxHistory - 1, MaxHistory}, restored \in BOOLEAN,
     room \in {Unlimited} \cup {[limited |-> TRUE, room |-> r] : r \in 0..MaxRoom} :
    /\ isRecording = FALSE
    /\ starting = FALSE
    /\ currentChunkNumber = 1
    /\ closureChunkNumber = 1
    /\ recorderState = "none"
    /\ chunkData = <<>>
    /\ stopEvent = FALSE
    /\ restartTimer = FALSE
    /\ chunkInterval = FALSE
    /\ audioChunks = <<>>
    /\ finalTranscripts = <<>>
    /\ pageKeys = <<>>
    /\ geminiApiKeys = <<>>
    /\ processedChunks = {}
    /\ completedTranscripts = <<>>
    /\ error = Null
    /\ processingRef = FALSE
    /\ loops = [n \in 1..MaxLoops |-> NoLoop]
    /\ session = 0
    /\ sealCount = 0
    /\ resets = 0
    /\ attempted = {}
    /\ failed = {}
    /\ lastRequest = NoRequest
    /\ outOfOrder = FALSE
    /\ serviceScript = <<>>
    /\ delivered = <<>>
    /\ captureMode = "microphone"
    /\ closureCaptureMode = "microphone"
    /\ recognitionRef = Null
    /\ recog = [o \in Objects |-> NoRecognition]
    /\ owed = {}
    /\ transcript = IF restored THEN RestoredSession.liveTranscript ELSE <<>>
    /\ finals = {}
    /\ micStreamRef = Null
    /\ desktopStreamRef = Null
    /\ streamState = [o \in Objects |-> "none"]
    /\ mounted = TRUE
    /\ currentSession = IF restored THEN RestoredSession ELSE Null
    /\ history = ArchivedBefore(archived)
    /\ duration = IF restored THEN RestoredSession.totalDuration ELSE 0
    /\ quota = room
    /\ call = NoCall
    /\ response = Null
    /\ apiKeys = <<NewEntry(1)>>
    /\ validKeys = <<>>
    /\ blobIsRecording = FALSE
    /\ blobRecorderState = "none"
    /\ audioChunksRef = <<>>
    /\ flushPending = FALSE
    /\ encoded = <<>>
    /\ finalAudioBlob = Null
    /\ blobRecording = 0
    /\ procChunks = <<>>
    /\ procResult = Null
    /\ procOp = "constructor"
    /\ procAdded = 0
    /\ procTaken = <<>>
    /\ audioContext = "none"
    /\ requestLog = NotCounting
    /\ extraStarts = 0
    /\ orphanEncoders = 0
    /\ orphanIntervals = 0

NextStorage ==
  \/ StartRecording
  \/ \E micOk \in BOOLEAN : StartRecordingAcquired(micOk, FALSE, FALSE)
  \/ \E micOk \in BOOLEAN : StartRecordingFailed(micOk, FALSE, FALSE)
  \/ DurationTick
  \/ DataAvailable
  \/ ChunkIntervalFires
  \/ RecorderStopped
  \/ restartRecordingForNextChunk
  \/ \E text \in SpokenTexts : RecognitionFinal(<<1, "mic">>, text)
  \/ stopRecording
  \/ handleResetSession
  \/ DispatcherReset

SpecStorage == InitStorage /\ [][NextStorage]_vars

\* --------------------------------------------- the recorder and its unmount
NextStreams ==
  \/ NextRecorder
  \/ UnmountCleanup

SpecStreams == Init /\ [][NextStreams]_vars


\* ------------------------------------------ the transcription call alone
InitTranscribe ==
  /\ isRecording = FALSE
  /\ starting = FALSE
  /\ currentChunkNumber = 1
  /\ closureChunkNumber = 1
  /\ recorderState = "none"
  /\ chunkData = <<>>
  /\ stopEvent = FALSE
  /\ restartTimer = FALSE
  /\ chunkInterval = FALSE
  /\ audioChunks = <<>>
  /\ finalTranscripts = <<>>
  /\ pageKeys = <<>>
  /\ geminiApiKeys = <<>>
  /\ processedChunks = {}
  /\ completedTranscripts = <<>>
  /\ error = Null
  /\ processingRef = FALSE
  /\ loops = [n \in 1..MaxLoops |-> NoLoop]
  /\ session = 0
  /\ sealCount = 0
  /\ resets = 0
  /\ attempted = {}
  /\ failed = {}
  /\ lastRequest = NoRequest
  /\ outOfOrder = FALSE
  /\ serviceScript = <<>>
  /\ delivered = <<>>
  /\ captureMode = "microphone"
  /\ closureCaptureMode = "microphone"
  /\ recognitionRef = Null
  /\ recog = [o \in Objects |-> NoRecognition]
  /\ owed = {}
  /\ transcript = <<>>
  /\ finals = {}
  /\ micStreamRef = Null
  /\ desktopStreamRef = Null
  /\ streamState = [o \in Objects |-> "none"]
  /\ mounted = TRUE
  /\ currentSession = Null
  /\ history = <<>>
  /\ duration = 0
  /\ quota = Unlimited
  /\ call \in Calls
  /\ response = Null
  /\ apiKeys = <<NewEntry(1)>>
  /\ validKeys = <<>>
  /\ blobIsRecording = FALSE
  /\ blobRecorderState = "none"
  /\ audioChunksRef = <<>>
  /\ flushPending = FALSE
  /\ encoded = <<>>
  /\ finalAudioBlob = Null
  /\ blobRecording = 0
  /\ procChunks = <<>>
  /\ procResult = Null
  /\ procOp = "constructor"
  /\ procAdded = 0
  /\ procTaken = <<>>
  /\ audioContext = "none"
  /\ requestLog = NotCounting
  /\ extraStarts = 0
  /\ orphanEncoders = 0
  /\ orphanIntervals = 0

NextTranscribe ==
  \/ TranscribeCall

SpecTranscribe == InitTranscribe /\ [][NextTranscribe]_vars

\* ------------------------------------------------ the settings list alone
NextSettings ==
  \/ addApiKey
  \/ \E i \in 1..MaxApiKeys : removeApiKey(i)
  \/ \E i \in 1..MaxApiKeys : clearApiKey(i)
  \/ \E i \in 1..MaxApiKeys, value \in KeyValues : handleApiKeyChange(i, value)

SpecSettings == Init /\ [][NextSettings]_vars

\* ------------------------------- the recorder with a doubled click on record
NextToggle ==
  \/ NextRecorder
  \/ StartRecordingAgain

SpecToggle == Init /\ [][NextToggle]_vars

\* ---------------------------------------------- the recording after the first
\* A first recording (number 0) of one chunk was made and stopped with one
\* credential configured, and its chunk was transcribed.
PreviousChunks ==
  <<[blob |-> <<<<1, 1>>>>, chunkNumber |-> 1, duration |-> CHUNK_DURATION, id |-> <<0, 1>>]>>

\* the "current-session" record the save-session effect wrote for it
PreviousSession ==
  [liveTranscript |-> <<>>, finalTranscripts |-> <<TranscriptOf(PreviousChunks[1])>>,
   audioChunks |-> WithoutBlob(PreviousChunks), totalDuration |-> 1,
   captureMode |-> "microphone"]

InitNextRecording ==
  /\ isRecording = FALSE
  /\ starting = FALSE
  /\ currentChunkNumber = 2
  /\ closureChunkNumber = 1
  /\ recorderState = "inactive"
  /\ chunkData = <<>>
  /\ stopEvent = FALSE
  /\ restartTimer = FALSE
  /\ chunkInterval = FALSE
  /\ audioChunks = PreviousChunks
  /\ finalTranscripts = <<TranscriptOf(PreviousChunks[1])>>
  /\ pageKeys = PoolOf(1)
  /\ geminiApiKeys = PoolOf(1)
  /\ processedChunks = {0}
  /\ completedTranscripts = <<TranscriptOf(PreviousChunks[1])>>
  /\ error = Null
  /\ processingRef = FALSE
  /\ loops = [n \in 1..MaxLoops |-> NoLoop]
  /\ session = 0
  /\ sealCount = 0
  /\ resets = 0
  /\ attempted = {}
  /\ failed = {}
  /\ lastRequest = NoRequest
  /\ outOfOrder = FALSE
  /\ serviceScript = <<>>
  /\ delivered = <<>>
  /\ captureMode = "microphone"
  /\ closureCaptureMode = "microphone"
  /\ recognitionRef = Null
  /\ recog = [o \in Objects |-> NoRecognition]
  /\ owed = {}
  /\ transcript = <<>>
  /\ finals = {}
  /\ micStreamRef = Null
  /\ desktopStreamRef = Null
  /\ streamState = [o \in Objects |-> "none"]
  /\ mounted = TRUE
  /\ currentSession = PreviousSession
  /\ history = <<>>
  /\ duration = 1
  /\ quota = Unlimited
  /\ call = NoCall
  /\ response = Null
  /\ apiKeys = <<NewEntry(1)>>
  /\ validKeys = <<>>
  /\ blobIsRecording = FALSE
  /\ blobRecorderState = "none"
  /\ audioChunksRef = <<>>
  /\ flushPending = FALSE
  /\ encoded = <<>>
  /\ finalAudioBlob = Null
  /\ blobRecording = 0
  /\ procChunks = <<>>
  /\ procResult = Null
  /\ procOp = "constructor"
  /\ procAdded = 0
  /\ procTaken = <<>>
  /\ audioContext = "none"
  /\ requestLog = NotCounting
  /\ extraStarts = 0
  /\ orphanEncoders = 0
  /\ orphanIntervals = 0

NextNextRecording ==
  \/ StartRecording
  \/ StartRecordingAcquired(TRUE, FALSE, FALSE)
  \/ DataAvailable
  \/ ChunkIntervalFires
  \/ RecorderStopped
  \/ restartRecordingForNextChunk
  \/ stopRecording
  \/ handleResetSession
  \/ DispatcherReset
  \/ \E n \in 1..MaxLoops : LoopStep(n)
  \/ \E n \in 1..MaxLoops : RequestReturns(n)
  \/ \E n \in 1..MaxLoops : RetryRequest(n)

SpecNextRecording == InitNextRecording /\ [][NextNextRecording]_vars

\* ------------------------------------- the dispatcher with a request log
InitRequests ==
  \E n \in 1..MaxCounted, script \in Scripts \cup {<<>>} :
    /\ isRecording = FALSE
    /\ starting = FALSE
    /\ currentChunkNumber = n + 1
    /\ closureChunkNumber = 1
    /\ recorderState = "inactive"
    /\ chunkData = <<>>
    /\ stopEvent = FALSE
    /\ restartTimer = FALSE
    /\ chunkInterval = FALSE
    /\ audioChunks = RecordedChunks(n)
    /\ finalTranscripts = <<>>
    /\ pageKeys = <<>>
    /\ geminiApiKeys = <<>>
    /\ processedChunks = {}
    /\ completedTranscripts = <<>>
    /\ error = Null
    /\ processingRef = FALSE
    /\ loops = [m \in 1..MaxLoops |-> NoLoop]
    /\ session = 1
    /\ sealCount = n
    /\ resets = 0
    /\ attempted = {}
    /\ failed = {}
    /\ lastRequest = NoRequest
    /\ outOfOrder = FALSE
    /\ serviceScript = script
    /\ delivered = [k \in 1..n |-> <<k, 1>>]
    /\ captureMode = "microphone"
    /\ closureCaptureMode = "microphone"
    /\ recognitionRef = Null
    /\ recog = [o \in Objects |-> [NoRecognition EXCEPT !.created = (o = <<1, "mic">>)]]
    /\ owed = {}
    /\ transcript = <<>>
    /\ finals = {}
    /\ micStreamRef = Null
    /\ desktopStreamRef = Null
    /\ streamState = [o \in Objects |-> "none"]
    /\ mounted = TRUE
    /\ currentSession = Null
    /\ history = <<>>
    /\ duration = 0
    /\ quota = Unlimited
    /\ call = NoCall
    /\ response = Null
    /\ apiKeys = <<NewEntry(1)>>
    /\ validKeys = <<>>
    /\ blobIsRecording = FALSE
    /\ blobRecorderState = "none"
    /\ audioChunksRef = <<>>
    /\ flushPending = FALSE
    /\ encoded = <<>>
    /\ finalAudioBlob = Null
    /\ blobRecording = 0
    /\ procChunks = <<>>
    /\ procResult = Null
    /\ procOp = "constructor"
    /\ procAdded = 0
    /\ procTaken = <<>>
    /\ audioContext = "none"
    /\ requestLog = Counting
    /\ extraStarts = 0
    /\ orphanEncoders = 0
    /\ orphanIntervals = 0

SpecRequests == InitRequests /\ [][NextDispatch]_vars

\* ----------------------- recognition while the desktop share is pending
NextStartup ==
  \/ StartRecording
  \/ StartRecordingMicAcquired
  \/ \E micOk, deskOk, shared \in BOOLEAN : StartRecordingAcquired(micOk, deskOk, shared)
  \/ \E micOk, deskOk, shared \in BOOLEAN : StartRecordingFailed(micOk, deskOk, shared)
  \/ \E m \in CaptureModes : setCaptureMode(m)
  \/ stopRecording
  \/ \E o \in Objects, text \in SpokenTexts : RecognitionInterim(o, text)
  \/ \E o \in Objects, text \in SpokenTexts : RecognitionFinal(o, text)

SpecStartup == Init /\ [][NextStartup]_vars

\* ------------------------------------------------- AudioChunkProcessor
Min(a, b) == IF a < b THEN a ELSE b

\* the samples of the arrays, in order
RECURSIVE Flatten(_)
Flatten(chs) == IF chs = <<>> THEN <<>> ELSE Head(chs) \o Flatten(Tail(chs))

\* chunk.subarray(begin)
subarrayFromStart(chunk, begin) == chunk
subarray(chunk, begin) == SubSeq(chunk, begin + 1, Len(chunk))

\* this.chunks.slice(chunkIndex)
slice(chs, chunkIndex) == SubSeq(chs, chunkIndex + 1, Len(chs))

\* new Float32Array(n) is zero-filled: what result.set did not write is 0
ZeroFilled(result, n) ==
  result \o [k \in 1..(n - Len(result)) |-> 0]

\* the while loop of getNextChunk; offset is the length of result
RECURSIVE CopyLoop(_, _, _, _)
CopyLoop(chs, result, chunkIndex, chunkSamples) ==
  IF ~(Len(result) < chunkSamples /\ chunkIndex < Len(chs))
  THEN [result |-> result, chunks |-> chs, chunkIndex |-> chunkIndex]
  ELSE LET chunk == chs[chunkIndex + 1]
           remainingSpace == chunkSamples - Len(result)
           copyLength == Min(Len(chunk), remainingSpace)
           copied == result \o SubSeq(chunk, 1, copyLength)
       IN IF copyLength = Len(chunk)
          THEN CopyLoop(chs, copied, chunkIndex + 1, chunkSamples)
          ELSE [result |-> copied,
                chunks |-> [chs EXCEPT ![chunkIndex + 1] = subarray(chunk, copyLength)],
                chunkIndex |-> chunkIndex]

\* getNextChunk(): the returned array (Null for null) and this.chunks afterwards
getNextChunk(chs) ==
  LET chunkSamples == sampleRate * chunkDuration
  IN IF Len(chs) = 0 THEN [result |-> Null, chunks |-> chs]
     ELSE IF Len(Flatten(chs)) < chunkSamples THEN [result |-> Null, chunks |-> chs]
     ELSE LET l == CopyLoop(chs, <<>>, 0, chunkSamples)
          IN [result |-> ZeroFilled(l.result, chunkSamples),
              chunks |-> slice(l.chunks, l.chunkIndex)]

UnchangedButProcessor ==
  /\ UNCHANGED <<pageVars, dispVars, histVars, recogVars, streamVars, storeVars, callVars>>
  /\ UNCHANGED blobVars
  /\ UNCHANGED <<settingsVars, toggleVars, countVars, mixerVars>>

\* addAudioData: push the converted samples (numbered in the order they arrive)
addAudioData(length) ==
  /\ procAdded + length <= MaxSamples
  /\ Len(procChunks) < MaxBuffered
  /\ procChunks' = Append(procChunks, [k \in 1..length |-> procAdded + k])
  /\ procAdded' = procAdded + length
  /\ procOp' = "addAudioData"
  /\ UNCHANGED <<procResult, procTaken>>
  /\ UnchangedButProcessor

GetNextChunk ==
  /\ LET r == getNextChunk(procChunks)
     IN /\ procResult' = r.result
        /\ procChunks' = r.chunks
        /\ procTaken' = procTaken \o r.result
  /\ procOp' = "getNextChunk"
  /\ UNCHANGED procAdded
  /\ UnchangedButProcessor

clear ==
  /\ procChunks' = <<>>
  /\ procOp' = "clear"
  /\ procAdded' = 0
  /\ procTaken' = <<>>
  /\ UNCHANGED procResult
  /\ UnchangedButProcessor

NextProcessor ==
  \/ \E length \in 0..MaxChunkLength : addAudioData(length)
  \/ GetNextChunk
  \/ clear

SpecProcessor == Init /\ [][NextProcessor]_vars

\* ------------------------------------------- the single-blob recorder page
UnchangedButBlob ==
  /\ UNCHANGED <<pageVars, dispVars, histVars, recogVars, streamVars, storeVars>>
  /\ UNCHANGED <<callVars, settingsVars, toggleVars, countVars, mixerVars, processorVars>>

\* the 'dataavailable' listener: blobs of size 0 are not pushed
PushBlob(chunks, blob) == IF blob.size > 0 THEN Append(chunks, blob) ELSE chunks

\* new Blob(audioChunksRef.current, ...): the parts in order
NewBlob(chunks) == chunks

\* startRecording of the page with a source: finalAudioBlob cleared, new
\* MediaRecorder, audioChunksRef emptied, start(1000). The streams are
\* acquired behind permission prompts, so the last event of the previous
\* encoder was delivered before.
BlobStartRecording ==
  /\ ~blobIsRecording
  /\ ~flushPending
  /\ blobRecording < MaxBlobRecordings
  /\ blobRecording' = blobRecording + 1
  /\ finalAudioBlob' = Null
  /\ blobRecorderState' = "recording"
  /\ audioChunksRef' = <<>>
  /\ encoded' = <<>>
  /\ blobIsRecording' = TRUE
  /\ UNCHANGED flushPending
  /\ UnchangedButBlob

\* a 'dataavailable' event of the 1 s timeslice
BlobDataAvailable(size) ==
  /\ blobRecorderState = "recording"
  /\ Len(encoded) < MaxBlobs - 1
  /\ LET blob == [id |-> <<blobRecording, Len(encoded) + 1>>, size |-> size]
     IN /\ encoded' = Append(encoded, blob)
        /\ audioChunksRef' = PushBlob(audioChunksRef, blob)
  /\ UNCHANGED <<blobIsRecording, blobRecorderState, flushPending, finalAudioBlob,
                 blobRecording>>
  /\ UnchangedButBlob

\* stopRecording of the page: stop() makes the encoder inactive at once and
\* queues the last 'dataavailable' and 'stop' events; the handler goes on and
\* builds the final blob from what audioChunksRef holds now
BlobStopRecording ==
  /\ blobIsRecording
  /\ blobRecorderState' = IF blobRecorderState = "recording" THEN "inactive"
                          ELSE blobRecorderState
  /\ flushPending' = (flushPending \/ blobRecorderState = "recording")
  /\ blobIsRecording' = FALSE
  /\ finalAudioBlob' = IF Len(audioChunksRef) > 0 THEN NewBlob(audioChunksRef)
                       ELSE finalAudioBlob
  /\ UNCHANGED <<audioChunksRef, encoded, blobRecording>>
  /\ UnchangedButBlob

\* the 'dataavailable' event that stop() queued: the data gathered since the
\* last timeslice, which may be empty
BlobFlushed(size) ==
  /\ flushPending
  /\ flushPending' = FALSE
  /\ LET blob == [id |-> <<blobRecording, Len(encoded) + 1>>, size |-> size]
     IN /\ encoded' = Append(encoded, blob)
        /\ audioChunksRef' = PushBlob(audioChunksRef, blob)
  /\ UNCHANGED <<blobIsRecording, blobRecorderState, finalAudioBlob, blobRecording>>
  /\ UnchangedButBlob

NextBlob ==
  \/ BlobStartRecording
  \/ \E size \in 0..1 : BlobDataAvailable(size)
  \/ BlobStopRecording
  \/ \E size \in 0..1 : BlobFlushed(size)

SpecBlob == Init /\ [][NextBlob]_vars

\* ================================================================ claims
InProgress(n) == loops[n].phase \in {"inflight", "backoff"}

\* downloadAllTranscripts / the transcript list: the filled slots in array order
downloadAllTranscripts == Filled(completedTranscripts)

\* the transcripts of the processed chunks in increasing index order
RECURSIVE InIndexOrder(_, _)
InIndexOrder(i, n) ==
  IF i >= n THEN <<>>
  ELSE IF i \in processedChunks
       THEN <<TranscriptOf(audioChunks[i + 1])>> \o InIndexOrder(i + 1, n)
       ELSE InIndexOrder(i + 1, n)

\* C1: within one recording the sealed chunks are numbered 1, 2, ..., N in
\* seal order: the chunk at array index i carries chunkNumber i + 1.
C1_ChunkNumbersGapless ==
  \A k \in 1..Len(audioChunks) : audioChunks[k].chunkNumber = k

\* C2: a sealed chunk at an index no request was issued for, with a
\* credential configured, is eventually submitted, also when it is the
\* last chunk of a stopped recording and nothing else arrives.
C2_Waiting(i) ==
  /\ i < Len(audioChunks)
  /\ audioChunks[i + 1].id \notin attempted
  /\ Len(geminiApiKeys) > 0
  /\ ~isRecording /\ ~starting /\ ~stopEvent

C2_Served(i) ==
  \/ i >= Len(audioChunks)
  \/ audioChunks[i + 1].id \in attempted

C2_SealedChunkEventuallyAttempted ==
  \A i \in 0..MaxTimerSeals : C2_Waiting(i) ~> C2_Served(i)

\* C3: at most one chunk transcription is in progress at any time, and the
\* indices a loop still has to process are in increasing order.
C3_OneTranscriptionAtATime ==
  /\ Cardinality({n \in 1..MaxLoops : InProgress(n)}) <= 1
  /\ \A n \in 1..MaxLoops : \A a, b \in 1..Len(loops[n].queue) :
       a < b => loops[n].queue[a] < loops[n].queue[b]

\* C4: when the service fails the first two calls for a chunk (by throwing
\* or by returning success: false) and answers the third, the chunk ends
\* with its transcript in its slot and no error recorded for it.
FailsTwiceThenSucceeds(script) ==
  /\ script # <<>>
  /\ script[1] \in {"throw", "fail"}
  /\ script[2] \in {"throw", "fail"}
  /\ script[3] = "ok"

C4_RetrySuccess ==
  \A n \in 1..MaxLoops :
    (/\ FailsTwiceThenSucceeds(serviceScript)
     /\ loops[n].phase = "delay"
     /\ loops[n].result \in {"success", "error"})
    => /\ loops[n].result = "success"
       /\ Len(completedTranscripts) > loops[n].chunkIndex
       /\ completedTranscripts[loops[n].chunkIndex + 1] =
            TranscriptOf(audioChunks[loops[n].chunkIndex + 1])
       /\ error # <<loops[n].chunkIndex>>

\* C5: a chunk whose three attempts all failed has an error recorded that
\* names it and no transcript in its slot, and the error still names it
\* after the later chunks of the batch were processed.
C5_ExhaustedErrorAttributable ==
  \A i \in failed :
    /\ error = <<i>>
    /\ i \notin processedChunks

\* C6: whatever the order in which the chunks complete, the transcript of
\* chunk i is in slot i of both arrays and the assembled output lists the
\* transcripts of the completed chunks in increasing index order.
C6_SlotsInIndexOrder ==
  /\ Len(completedTranscripts) <= Len(audioChunks)
  /\ \A k \in 1..Len(completedTranscripts) :
       completedTranscripts[k] =
         IF (k - 1) \in processedChunks THEN TranscriptOf(audioChunks[k]) ELSE Empty
  /\ \A i \in processedChunks : i < Len(completedTranscripts)
  /\ finalTranscripts = completedTranscripts
  /\ downloadAllTranscripts = InIndexOrder(0, Len(audioChunks))

C6_Witness ==
  /\ outOfOrder
  /\ Len(audioChunks) >= 3
  /\ processedChunks = 0..(Len(audioChunks) - 1)

\* C7: once slot i holds a transcript, no step other than a session reset
\* or the start of a new recording changes slot i.
SlotsKept(arr, arr2) ==
  \A k \in 1..Len(arr) :
    arr[k] # Empty => (k <= Len(arr2) /\ arr2[k] = arr[k])

C7_FilledSlotTerminal ==
  [][(resets' = resets /\ ~(starting /\ ~starting'))
       => /\ SlotsKept(completedTranscripts, completedTranscripts')
          /\ SlotsKept(finalTranscripts, finalTranscripts')]_vars

\* C8: every request for the chunk at index i, the first attempt and each
\* retry, uses credential i mod K of the pool of K credentials; with two
\* credentials the indices 0..4 use 0, 1, 0, 1, 0.
C8_KeyRotation ==
  /\ lastRequest # NoRequest =>
       LET K == Len(lastRequest.keys)
           i == lastRequest.chunkIndex
       IN /\ K >= 1
          /\ lastRequest.apiKey = lastRequest.keys[(i % K) + 1]
          /\ (K = 1) => lastRequest.apiKey = lastRequest.keys[1]
          /\ (K = 2 /\ i <= 4) =>
               lastRequest.apiKey = lastRequest.keys[<<0, 1, 0, 1, 0>>[i + 1] + 1]
  /\ \A n \in 1..MaxLoops : InProgress(n) =>
       loops[n].apiKey = loops[n].keys[(loops[n].chunkIndex % Len(loops[n].keys)) + 1]

C8_Witness ==
  /\ lastRequest.chunkIndex = 4
  /\ lastRequest.attempt = 3
  /\ Len(lastRequest.keys) = 2
  /\ lastRequest.apiKey = 1

C10_RecognitionRestarted ==
  \A o \in Objects : (o \in owed) ~> (o \notin owed \/ ~isRecording)

\* C11: a restart timer calls start() only if, when it fires, the recording
\* is still on and the object is still the one in recognitionRef: no step
\* brings an already created recognition object from stopped to running
\* otherwise, so none is started after stopRecording.
C11_RestartOnlyWhileCurrent ==
  [][\A o \in Objects :
       (recog[o].created /\ ~recog[o].running /\ recog'[o].running)
         => (isRecording /\ recognitionRef = o)]_vars

\* C12: the stop of a recording calls stop() on every recognition object
\* that was started for it, the microphone-bound and the desktop-bound: when
\* stopRecording returns, no recognition object is running (a running
\* object goes on delivering results, which append transcript entries).
C12_StopStopsEveryRecognition ==
  [][(isRecording /\ ~isRecording') => \A o \in Objects : ~recog'[o].running]_vars

\* the transcript entries of the microphone that hold result id
EntriesOf(id) ==
  {k \in 1..Len(transcript) :
     /\ transcript[k].speaker = "user"
     /\ transcript[k].source = "microphone"
     /\ \E j \in 1..Len(transcript[k].results) : transcript[k].results[j] = id}

\* C13: every finalized microphone result (all have non-zero length) has
\* exactly one transcript entry with speaker user and source microphone,
\* also after the recognition was restarted and when the result was first
\* reported as interim.
C13_OneEntryPerFinalResult ==
  \A id \in finals : id[1][2] = "mic" => Cardinality(EntriesOf(id)) = 1

\* the results of the desktop object delivered so far
DesktopResults == recog[<<1, "desktop">>].results

\* the transcript has an entry with speaker ai and source system for result id
HasAiEntry(id) ==
  \E k \in 1..Len(transcript) :
    /\ transcript[k].speaker = "ai"
    /\ transcript[k].source = "system"
    /\ \E j \in 1..Len(transcript[k].results) : transcript[k].results[j] = id

\* C14: a desktop result has a transcript entry (speaker ai, source system)
\* if and only if it is final, its trimmed length is greater than 10 and it
\* matches an assistant-phrasing pattern or is longer than 30 characters.
C14_DesktopEntryRule ==
  \A k \in 1..Len(DesktopResults) :
    LET r == DesktopResults[k]
    IN HasAiEntry(r.id) <=>
         /\ r.isFinal
         /\ r.text.length > 10
         /\ (r.text.aiPattern \/ r.text.length > 30)

\* C15: a stop pressed while the encoder is recording queues one 'stop'
\* event and clears the seal timer; the event seals the buffered data in
\* exactly one chunk; and from the stop on, until a new recording is
\* started, the encoder is not started again, the timer seals nothing and
\* no other chunk is appended.
C15_FinalSealOnceThenQuiet ==
  [][/\ (isRecording /\ ~isRecording' /\ recorderState = "recording")
          => (stopEvent' /\ recorderState' = "inactive" /\ ~chunkInterval'
              /\ audioChunks' = audioChunks)
     /\ (~isRecording /\ ~starting /\ stopEvent /\ ~stopEvent' /\ Len(chunkData) > 0)
          => (/\ Len(audioChunks') = Len(audioChunks) + 1
              /\ restartTimer' = restartTimer)
     /\ (~isRecording /\ ~starting /\ ~starting')
          => (/\ recorderState' # "recording"
              /\ ~chunkInterval'
              /\ (stopEvent' => stopEvent)
              /\ (~stopEvent => Len(audioChunks') <= Len(audioChunks)))]_vars

C15_Witness ==
  /\ ~isRecording
  /\ session = 1
  /\ ~stopEvent
  /\ ~restartTimer
  /\ recorderState = "inactive"
  /\ sealCount = MaxTimerSeals + 1
  /\ Len(audioChunks) = sealCount

\* C16: a 'stop' event of a timer-triggered seal that is delivered while the
\* recording is on is followed by the encoder recording again (unless the
\* user stops first), and within a recording the encoder goes from inactive
\* to recording only by the one restart timeout that seal armed.
C16_RestartAfterSeal ==
  /\ (stopEvent /\ isRecording) ~> (recorderState = "recording" \/ ~isRecording)
  /\ [][/\ (stopEvent /\ ~stopEvent' /\ isRecording) => restartTimer'
        /\ (recorderState = "inactive" /\ recorderState' = "recording")
             => ((restartTimer /\ ~restartTimer') \/ (starting /\ ~starting'))]_vars

C16_Witness ==
  /\ isRecording
  /\ sealCount = 1
  /\ Len(audioChunks) = 1
  /\ recorderState = "recording"
  /\ ~restartTimer
  /\ ~stopEvent

\* the blobs of a list of sealed chunks, in order
RECURSIVE BlobsOf(_)
BlobsOf(chunks) ==
  IF chunks = <<>> THEN <<>> ELSE Head(chunks).blob \o BlobsOf(Tail(chunks))

C18_StopReleasesEveryStreamOnce ==
  [][/\ (isRecording /\ ~isRecording') =>
          \A o \in Objects : o[1] = session => streamState'[o] # "live"
     /\ \A o \in Objects : streamState'[o] # "releasedTwice"]_vars

\* C19: when startRecording ends in failure, every stream acquired during the
\* attempt has been released and no recognition object started during it is
\* left running.
C19_AbortReleasesStreams ==
  [][(starting /\ ~starting' /\ ~isRecording') =>
       \A o \in Objects :
         o[1] = session => (streamState'[o] # "live" /\ ~recog'[o].running)]_vars

\* the sole requested source of the attempt was not acquired: no microphone
\* stream in mode "microphone", no desktop stream with audio in mode
\* "desktop"
SoleSourceFailed(mode, micRef, deskRef, s) ==
  \/ mode = "microphone" /\ micRef # <<s, "mic">>
  \/ mode = "desktop" /\ deskRef # <<s, "desktop">>

\* C20: when the sole requested source is not acquired, the start is aborted:
\* the session does not enter the recording state and neither an encoder
\* nor the seal timer is started.
C20_SoleSourceFailureAborts ==
  [][(starting /\ ~starting'
        /\ SoleSourceFailed(closureCaptureMode, micStreamRef', desktopStreamRef', session)) =>
       (~isRecording' /\ recorderState' = recorderState /\ ~chunkInterval')]_vars

\* C21: in mode "both", when one of the two sources is not acquired the
\* session starts with the other one alone: its stream is stored, its
\* recognition runs, the encoder is created and recording, and the chunk
\* interval is armed; and an attempt in mode "both" never ends in failure
\* without a stream having been acquired and set up.
C21_BothDegradesToOneSource ==
  [][(starting /\ ~starting' /\ closureCaptureMode = "both") =>
       LET mic == <<session, "mic">>
           desk == <<session, "desktop">>
       IN /\ (isRecording' /\ streamState'[mic] = "live" /\ desktopStreamRef' # desk) =>
               (/\ micStreamRef' = mic
                /\ recog'[mic].running
                /\ recorderState' = "recording"
                /\ chunkInterval')
          /\ (isRecording' /\ desktopStreamRef' = desk /\ streamState'[mic] # "live") =>
               (/\ recog'[desk].running
                /\ recorderState' = "recording"
                /\ chunkInterval')
          /\ ~isRecording' => (micStreamRef' = mic \/ desktopStreamRef' = desk)]_vars

\* a session requested in mode "both" that records from the microphone alone
C21_Witness ==
  /\ isRecording
  /\ closureCaptureMode = "both"
  /\ micStreamRef = <<session, "mic">>
  /\ desktopStreamRef = Null
  /\ streamState[<<session, "desktop">>] = "none"
  /\ recorderState = "recording"
  /\ captureMode = "microphone"

\* C22: after a session reset, from the Reset Session control of the page or
\* from the one of the final-transcript card, the live transcript, the chunk
\* list, the final-transcript slots of the page and those of the dispatcher
\* are empty and storage holds no "current-session" record.
C22_ResetClearsSession ==
  [][resets' = resets + 1 =>
       (/\ transcript' = <<>>
        /\ audioChunks' = <<>>
        /\ finalTranscripts' = <<>>
        /\ completedTranscripts' = <<>>
        /\ currentSession' = Null)]_vars

\* C23: a session reset leaves the archive untouched: the history record is
\* the same before and after the reset.
C23_ResetKeepsHistory ==
  [][resets' = resets + 1 => history' = history]_vars

\* the history has an entry for recording session s
Archived(h, s) ==
  \E k \in 1..Len(h) : h[k].session = s

\* C24: when a recording session with data is stopped it is archived: after
\* stopRecording the history holds an entry for the session.
C24_StopArchivesSession ==
  [][(isRecording /\ ~isRecording' /\ mounted'
        /\ (duration > 0 \/ transcript # <<>> \/ finalTranscripts # <<>>)) =>
       Archived(history', session)]_vars

\* C25: the history is a bounded ring: it never holds more than MaxHistory
\* entries and they are ordered newest first; an archive operation puts the
\* new entry in front of the entries there were, in their order, and drops
\* an entry (the oldest, at the end) only when the bound would be exceeded;
\* the entry archived is never one of a session with no live transcript, no
\* final transcript and zero duration.
C25_HistoryIsBoundedRing ==
  /\ [](/\ Len(history) <= MaxHistory
        /\ \A k \in 1..Len(history) - 1 : history[k].id > history[k + 1].id)
  /\ [][history' # history =>
          (/\ Len(history') = IF Len(history) < MaxHistory THEN Len(history) + 1
                                                           ELSE MaxHistory
           /\ \A k \in 1..Len(history') - 1 : history'[k + 1] = history[k]
           /\ (\/ history'[1].liveTranscript > 0
               \/ history'[1].finalTranscripts > 0
               \/ history'[1].totalDuration > 0))]_vars

\* a full history whose oldest entry was evicted for the entry of session 1
C25_Witness ==
  /\ Len(history) = MaxHistory
  /\ history[1].session = 1
  /\ history[MaxHistory].id = 2
  /\ history[1].id = MaxHistory + 1

\* C26: the live transcript is append-only between resets: a step that
\* changes it either appends entries at its end, leaving the entries there
\* were as they are and where they are, or empties it in a session reset or
\* at the start of a new recording.
C26_TranscriptAppendOnly ==
  [][transcript' # transcript =>
       \/ /\ Len(transcript') > Len(transcript)
          /\ SubSeq(transcript', 1, Len(transcript)) = transcript
       \/ /\ transcript' = <<>>
          /\ (resets' = resets + 1 \/ (starting /\ isRecording'))]_vars

\* a transcript of two entries, the second appended to the first
C26_Witness ==
  /\ Len(transcript) = 2
  /\ isRecording
  /\ transcript[1].results[1][1] = <<1, "mic">>
  /\ transcript[2].results[1][1] = <<1, "mic">>


\* ---------------------------------------------------------------------
\* The current-session record when localStorage is full.
\* ---------------------------------------------------------------------

\* the save-session effect saved in this step
SaveSessionRan ==
  /\ <<transcript', finalTranscripts', audioChunks', duration', captureMode'>>
       # <<transcript, finalTranscripts, audioChunks, duration, captureMode>>
  /\ (transcript' # <<>> \/ finalTranscripts' # <<>> \/ audioChunks' # <<>>)

\* r is a reduced form of data: a suffix of the live transcript, a prefix of
\* the final transcripts, the same duration and capture mode
IsTruncationOf(r, data) ==
  IF r = Null THEN FALSE
  ELSE /\ r.totalDuration = data.totalDuration
       /\ r.captureMode = data.captureMode
       /\ \E i \in 0..Len(data.liveTranscript) :
            r.liveTranscript =
              SubSeq(data.liveTranscript, i + 1, Len(data.liveTranscript))
       /\ \E j \in 0..Len(data.finalTranscripts) :
            r.finalTranscripts = SubSeq(data.finalTranscripts, 1, j)

\* C27: when the write of the current-session record fails with
\* quota-exceeded and a reduced record would fit, the save is retried with a
\* truncated payload, so the record kept afterwards is a reduced form of the
\* session as it is now.
C27_QuotaExceededRetriesTruncated ==
  [][(SaveSessionRan /\ ~Fits(SessionData', quota) /\ quota.room >= 1)
       => IsTruncationOf(currentSession', SessionData')]_vars


\* ---------------------------------------------------------------------
\* The failures of the transcription call.
\* ---------------------------------------------------------------------

\* the call reached the service and the service rejected it with an error of
\* exactly one category m of the taxonomy
RejectedAs(c, m) ==
  /\ c.apiKey.length > 0
  /\ ~c.initThrows
  /\ c.service.kind = "error"
  /\ c.service.hasMessage
  /\ c.service.message = {m}

\* the request failed: no key, no client, an error of the service, or no text
RequestFailed(c) ==
  \/ c.apiKey.length = 0
  \/ c.initThrows
  \/ c.service.kind = "error"
  \/ c.service.text.length + c.service.text.stamps = 0

\* the same call with an error of the service that names no category
Uncategorized(c) ==
  [c EXCEPT !.service.message = {}]

\* C28: the transcription call never reports success for a failed request,
\* and an error of one category of the taxonomy (credential invalid, quota
\* exceeded, resource exhausted, unsupported media type) gets a message of
\* its own: not that of another category and not the generic one.
C28_FailuresClassified ==
  response # Null =>
    /\ RequestFailed(call) => ~response.success
    /\ \A m \in Markers :
         RejectedAs(call, m) =>
           /\ response.error # transcribeAudioWithGemini(Uncategorized(call)).error
           /\ \A other \in Markers \ {m} :
                response.error #
                  transcribeAudioWithGemini([call EXCEPT !.service.message = {other}]).error


\* ---------------------------------------------------------------------
\* A seal without data.
\* ---------------------------------------------------------------------

\* C29: a seal for which the encoder delivered nothing produces no chunk: no
\* chunk is ever empty, the 'stop' event of an empty buffer leaves the chunk
\* list and the chunk counter as they are, and the 'stop' event of a buffer
\* with data appends one chunk of exactly that data at the end of the list and
\* advances the counter by one, so that the counter is always one more than
\* the number of chunks.
C29_EmptySealYieldsNoChunk ==
  /\ [](/\ \A k \in 1..Len(audioChunks) : audioChunks[k].blob # <<>>
        /\ currentChunkNumber = Len(audioChunks) + 1)
  /\ [][(stopEvent /\ ~stopEvent') =>
          IF chunkData = <<>>
          THEN UNCHANGED <<audioChunks, currentChunkNumber>>
          ELSE /\ Len(audioChunks') = Len(audioChunks) + 1
               /\ SubSeq(audioChunks', 1, Len(audioChunks)) = audioChunks
               /\ audioChunks'[Len(audioChunks')].blob = chunkData
               /\ currentChunkNumber' = currentChunkNumber + 1]_vars

\* a recording whose first timer seal found the buffer empty: the encoder was
\* stopped, its 'stop' event was handled and the restart is armed, and there
\* is no chunk
C29_Witness ==
  /\ isRecording
  /\ recorderState = "inactive"
  /\ ~stopEvent
  /\ restartTimer
  /\ chunkData = <<>>
  /\ audioChunks = <<>>
  /\ resets = 0


\* ---------------------------------------------------------------------
\* The credential list of the settings.
\* ---------------------------------------------------------------------

\* the rows of the list whose key is not blank
NonBlankRows == {i \in 1..Len(apiKeys) : apiKeys[i].key.length > 0}

\* the k-th non-blank row from the top
NonBlankRow(k) ==
  CHOOSE i \in NonBlankRows : Cardinality({j \in NonBlankRows : j <= i}) = k

\* C30: whatever was added, removed, cleared and edited, the list has between
\* 1 and 5 entries, and the pool handed to the dispatcher has at most 5
\* credentials, none blank: the trimmed keys of the non-blank rows from top to
\* bottom.
C30_CredentialListBounded ==
  /\ Len(apiKeys) >= 1
  /\ Len(apiKeys) <= MaxApiKeys
  /\ Len(validKeys) <= MaxApiKeys
  /\ Len(validKeys) = Cardinality(NonBlankRows)
  /\ \A k \in 1..Len(validKeys) :
       /\ validKeys[k].length > 0
       /\ validKeys[k].pad = 0
       /\ validKeys[k].length = apiKeys[NonBlankRow(k)].key.length


\* ---------------------------------------------------------------------
\* One encoder and one seal timer.
\* ---------------------------------------------------------------------

\* C31: at most one encoder and one seal timer exist at any time, also when
\* the record button is clicked again while an earlier startRecording is
\* still awaiting its devices: no MediaRecorder keeps recording outside
\* mediaRecorderRef, no armed interval is outside chunkIntervalRef, and when
\* nothing is recording and nothing is starting no seal timer is armed.
C31_OneEncoderOneSealTimer ==
  /\ orphanEncoders = 0
  /\ orphanIntervals = 0
  /\ (~isRecording /\ ~starting) => ~chunkInterval


\* ---------------------------------------------------------------------
\* Recording needs a source.
\* ---------------------------------------------------------------------

\* C32: whenever the session is in the recording state (isRecording true and
\* the seal timer armed) at least one audio stream is held for it and an
\* encoder was created; in particular mode "both" with both acquisitions
\* failing does not enter the recording state.
C32_RecordingHasSourceAndEncoder ==
  (isRecording /\ chunkInterval) =>
    /\ micStreamRef # Null \/ desktopStreamRef # Null
    /\ recorderState # "none"


\* ---------------------------------------------------------------------
\* The dispatcher's bookkeeping and the session.
\* ---------------------------------------------------------------------

\* C33: the dispatcher's bookkeeping follows the session: the step in which
\* a new recording starts and the step of a Reset Session leave the
\* dispatcher's processed-index set and completed-transcript array empty, so
\* that every index marked processed was processed for the chunk that is at
\* that index now.
C33_BookkeepingFollowsSession ==
  /\ [][((~isRecording /\ isRecording') \/ resets' = resets + 1) =>
          (processedChunks' = {} /\ completedTranscripts' = <<>>)]_vars
  /\ [](\A i \in processedChunks :
          i < Len(audioChunks) =>
            /\ i < Len(completedTranscripts)
            /\ completedTranscripts[i + 1] = TranscriptOf(audioChunks[i + 1]))


\* ---------------------------------------------------------------------
\* Completions that arrive after a reset.
\* ---------------------------------------------------------------------

\* the request of loop n is for a chunk that is no longer in the chunk list:
\* the session was reset, or a new recording was started, after the loop took
\* its copy of the list
StaleRequest(n) ==
  LET l == loops[n]
  IN /\ l.phase = "inflight"
     /\ l.audioChunks[l.chunkIndex + 1].id \notin Ids(audioChunks)

\* C34: a transcription that is in flight when the session is reset or a new
\* recording starts does not write into the new session: when its request
\* settles no slot is filled, no index is marked processed and the
\* "current-session" record is not written.
C34_StaleCompletionWritesNothing ==
  [][\A n \in 1..MaxLoops :
       (StaleRequest(n) /\ loops'[n].phase # "inflight") =>
         UNCHANGED <<completedTranscripts, processedChunks, finalTranscripts,
                     currentSession>>]_vars


\* ---------------------------------------------------------------------
\* The requests for one chunk.
\* ---------------------------------------------------------------------

\* C35: across a whole session the dispatcher issues at most
\* 1 + maxRetries = 3 transcription requests for any one chunk: a chunk whose
\* processing ended in failure is not submitted again by a later batch.
C35_AtMostThreeRequestsPerChunk ==
  \A id \in DOMAIN requestLog.count : requestLog.count[id] <= 1 + maxRetries


\* ---------------------------------------------------------------------
\* The mixing AudioContext.
\* ---------------------------------------------------------------------

\* C36: the mixing AudioContext created by startRecording is eventually
\* closed after every stop, including a stop that lands between a timer seal
\* and the restart of the encoder.
C36_MixerContextEventuallyClosed ==
  (~isRecording /\ ~starting /\ audioContext = "running") ~> (audioContext = "closed")


\* ---------------------------------------------------------------------
\* The transcript reset of startRecording.
\* ---------------------------------------------------------------------

\* the transcript entries built from results of the recording being started
OwnEntries ==
  {k \in 1..Len(transcript) :
     \E j \in 1..Len(transcript[k].results) :
        transcript[k].results[j][1][1] = PendingSession}

\* C37: the start-up of a recording does not discard transcript entries
\* finalized by a recognition session of that same recording: its transcript
\* reset takes effect before such a session can append an entry.
C37_StartupKeepsOwnEntries ==
  [][(starting /\ isRecording')
       => \A k \in OwnEntries :
             \E m \in 1..Len(transcript') : transcript'[m] = transcript[k]]_vars


\* ---------------------------------------------------------------------
\* The ids of the API-key entries.
\* ---------------------------------------------------------------------

\* C38: the ids of the entries of the settings list are pairwise distinct
\* after any sequence of add and remove operations, so an operation on one
\* id touches exactly one entry.
C38_EntryIdsDistinct ==
  \A i, j \in 1..Len(apiKeys) : apiKeys[i].id = apiKeys[j].id => i = j


\* ---------------------------------------------------------------------
\* AudioChunkProcessor.getNextChunk.
\* ---------------------------------------------------------------------

\* the first n elements of a sequence, and the rest
FirstSamples(q, n) == SubSeq(q, 1, n)
RestSamples(q, n) == SubSeq(q, n + 1, Len(q))

\* C39: getNextChunk is a FIFO take of exactly sampleRate * chunkDuration
\* samples. With fewer samples buffered it returns null and leaves the buffer
\* unchanged; otherwise it returns exactly that many samples, the oldest
\* buffered ones in insertion order, and the buffer afterwards holds exactly
\* the remaining samples in order; so successive calls lose, duplicate and
\* reorder nothing: the samples taken so far followed by the buffered ones
\* are the samples added, in the order they were added.
C39_GetNextChunkIsFifoTake ==
  /\ [](procTaken \o Flatten(procChunks) = [k \in 1..procAdded |-> k])
  /\ [][procOp' = "getNextChunk" =>
          LET n == sampleRate * chunkDuration
              buffered == Flatten(procChunks)
          IN IF Len(buffered) < n
             THEN procResult' = Null /\ procChunks' = procChunks
             ELSE /\ Len(procResult') = n
                  /\ procResult' = FirstSamples(buffered, n)
                  /\ Flatten(procChunks') = RestSamples(buffered, n)]_vars

\* the second successful take in a row split a buffered array and left its rest
C39_Witness ==
  /\ procOp = "getNextChunk"
  /\ procResult # Null
  /\ Len(procTaken) = 2 * sampleRate * chunkDuration
  /\ procChunks # <<>>
  /\ Len(procChunks[1]) < MaxChunkLength
  /\ procChunks[1][1] = Len(procTaken) + 1


\* ---------------------------------------------------------------------
\* The final blob of the single-blob recorder page.
\* ---------------------------------------------------------------------

\* the blobs with data among those the encoder delivered
DeliveredData == SelectSeq(encoded, LAMBDA b : b.size > 0)

\* C40: on the single-blob page the final audio blob built on stop holds
\* every data blob the encoder delivers for the recording, the one flushed
\* by stop() included.
C40_FinalBlobHoldsEveryDataBlob ==
  (~blobIsRecording /\ blobRecorderState = "inactive" /\ ~flushPending)
     => finalAudioBlob = NewBlob(DeliveredData)

====
